---- MODULE Spec2Model ----
(***************************************************************************)
(* A model of four parts of WAVM:                                          *)
(*   - the compartment manager (Lib/Runtime/Compartment.cpp):              *)
(*     cloneCompartment, remapToClonedCompartment, isInCompartment, and    *)
(*     the destruction of a compartment;                                   *)
(*   - the test-script parser (Lib/WASTParse/ParseTests.cpp): makeHostRef, *)
(*     the assert_trap classifier, assert_invalid / assert_malformed;      *)
(*   - ResourceQuota::CurrentAndMax (RuntimePrivate.h);                    *)
(*   - the lowering of the memory operators (Lib/LLVMJIT/EmitMem.cpp):     *)
(*     the code each operator function emits (SpecEmit) and the runs of    *)
(*     that code over linear memories (SpecRun).                           *)
(* Each part has its own specification over the shared variables; the      *)
(* variables of the other parts stay as Init leaves them.                  *)
(***************************************************************************)
EXTENDS Integers, Sequences, FiniteSets, TLC

(***************************************************************************)
(* Bounds of the model.                                                    *)
(***************************************************************************)
\* Objects created other than by createCompartment and cloneCompartment.
MaxObjects == 2
\* Compartments ever created.
MaxCompartments == 2
\* Ids of an index map: 0..MaxId.
MaxId == 1
\* Distinct LLVMJIT modules.
MaxJitModules == 2
\* Slots of a compartment's mutable global data (maxMutableGlobals).
MaxMutableGlobals == 2
\* Width of Uptr in bits.
UptrBits == 2
\* Threads that use one ResourceQuota counter.
MaxQuotaThreads == 2
\* Threads that call makeHostRef.
MaxHostThreads == 2
\* Indices given to ref.host: 0..MaxHostIndex.
MaxHostIndex == 1
\* Tokens of a test script before its t_eof.
MaxTokens == 9
\* Errors parseModule or parseModuleBody gives for one module.
MaxErrors == 2

UINTPTR_MAX == 2^UptrBits - 1

VARIABLES
    heap,       \* compartment part: every object ever allocated, by address
    cloning,    \* compartment part: the cloneCompartment call in progress
    cloneOf,    \* compartment part: returned clone -> its source, while neither changed
    lastCall,   \* compartment part: the remap / isInCompartment call being answered
    created,    \* compartment part: how many objects the create calls have made
    indexToHostRefMap,      \* makeHostRef: the static HashMap<Uptr, HostRef>
    indexToHostRefMapMutex, \* makeHostRef: the thread holding the static mutex, or 0
    hostFunctions,          \* makeHostRef: every Function allocated, by address
    hostCalls,              \* makeHostRef: each thread's call in progress
    hostReturned,           \* makeHostRef: <<index, result>> of every finished call
    quota,       \* ResourceQuota: one CurrentAndMax<Uptr>: current, max and its mutex
    quotaCalls,  \* ResourceQuota: each thread's call in progress
    quotaLedger, \* ResourceQuota: per thread, what its allocates added less what it freed
    trap,            \* assert_trap: the position in the case and its locals
    trapParseState,  \* assert_trap: the ParseState of the cursor
    cursor,      \* parseTestCommands: CursorState, nextToken and parseState
    parser,      \* parseTestCommands: position, handlers entered, locals of parseCommand
    parseState,  \* parseTestCommands: its ParseState
    malformedModuleParseState,  \* assert_invalid / assert_malformed: the scoped ParseState
    outTestCommands,  \* parseTestCommands: the commands returned
    outErrors,        \* parseTestCommands: the errors returned
    form,         \* parseTestCommands: the top-level form being parsed
    emitted,     \* memory operators: the operator lowered last, with the code made for it
    machine      \* memory operators: the run of the code made for one operator

compVars == <<heap, cloning, cloneOf, lastCall, created>>
hostVars == <<indexToHostRefMap, indexToHostRefMapMutex, hostFunctions, hostCalls,
              hostReturned>>
quotaVars == <<quota, quotaCalls, quotaLedger>>
trapVars == <<trap, trapParseState>>
parseVars == <<cursor, parser, parseState, malformedModuleParseState, outTestCommands,
               outErrors, form>>
emitVars == <<emitted, machine>>
vars == <<compVars, hostVars, quotaVars, trapVars, parseVars, emitVars>>

(***************************************************************************)
(* Compartments and runtime objects.                                       *)
(***************************************************************************)
\* The address an object is allocated at is named after what it was allocated
\* for: its kind, the number of its compartment and its id (for a Function, its
\* LLVMJIT module and its instanceId). Two live objects never share an address.
Address(kind, c, id) == <<kind, c, id>>
\* nullptr
Null == Address("null", 0, 0)

\* ObjectKind values of objects an index map of a compartment holds.
ClonedKinds == {"table", "memory", "global", "exceptionType", "instance"}
MapKinds == ClonedKinds \cup {"context", "foreign"}

Ids == 0..MaxId
JitModules == 1..MaxJitModules
\* Global::mutableGlobalIndex: a slot of the compartment's mutable global data.
MutableGlobalIndices == 0..(MaxMutableGlobals - 1)

EmptyMap == <<>>

\* Compartment::Compartment: GCObject(ObjectKind::compartment, this), seven empty
\* index maps; mutexShared counts the ShareableLocks held on Compartment::mutex.
\* runtimeData and unalignedRuntimeData point into the pages that
\* Platform::allocateAlignedVirtualPages gave; pages is the state of that region.
NewCompartment(self) ==
    [kind |-> "compartment", compartment |-> self,
     maps |-> [k \in MapKinds |-> EmptyMap],
     globalDataAllocationMask |-> {},
     mutexShared |-> 0,
     runtimeData |-> "pages", unalignedRuntimeData |-> "pages", pages |-> "allocated"]

\* What is left at the address of a compartment whose destructor has run.
Destroyed == "destroyed compartment"
\* The objects alive.
Addresses == {a \in DOMAIN heap : heap[a].kind # Destroyed}
IsCompartment(a) == a \in Addresses /\ heap[a].kind = "compartment"
Compartments == {a \in Addresses : IsCompartment(a)}
Functions == {a \in Addresses : heap[a].kind = "function"}
\* How many compartments have been constructed.
Constructed(h) == Cardinality({a \in DOMAIN h : h[a].kind \in {"compartment", Destroyed}})
NextCompartmentAddress(h) == Address("compartment", Constructed(h) + 1, 0)

\* The objects registered in compartment c under kind k.
Registered(c, k) == {heap[c].maps[k][i] : i \in DOMAIN heap[c].maps[k]}

\* IndexMap::contains
Contains(map, id) == id \in DOMAIN map

\* What the compartment being filled by a running cloneCompartment is: no other
\* thread holds a pointer to it before cloneCompartment returns.
IsPrivate(c) == cloning.phase # "idle" /\ cloning.newCompartment = c

HostThreads == 1..MaxHostThreads
HostIndices == 0..MaxHostIndex
QuotaThreads == 1..MaxQuotaThreads
\* The values of Uptr.
Words == 0..UINTPTR_MAX

Init ==
    /\ heap = <<>>
    /\ cloning = [phase |-> "idle"]
    /\ cloneOf = EmptyMap
    /\ lastCall = [op |-> "none"]
    /\ created = 0
    /\ indexToHostRefMap = EmptyMap
    /\ indexToHostRefMapMutex = 0
    /\ hostFunctions = <<>>
    /\ hostCalls = [t \in HostThreads |-> [pc |-> "idle", index |-> 0]]
    /\ hostReturned = {}
    /\ quota = [current |-> 0, max |-> UINTPTR_MAX, mutex |-> 0]
    /\ quotaCalls = [t \in QuotaThreads |-> [pc |-> "idle"]]
    /\ quotaLedger = [t \in QuotaThreads |-> 0]
    /\ trap = [pc |-> "parseAction", keyword |-> "none", action |-> "none",
               stringLiteral |-> FALSE, expectedErrorMessage |-> "",
               result |-> [type |-> "null"], exception |-> "none"]
    /\ trapParseState = [unresolvedErrors |-> <<>>]
    /\ cursor = [nextToken |-> <<>>, numTokens |-> 0, parseState |-> "parseState"]
    /\ parser = [pc |-> "commands", frames |-> <<"parseTestCommands">>,
                 exception |-> "none", commandType |-> "none", quoteToken |-> "none",
                 quotedModuleType |-> "none", quotedModuleString |-> "",
                 result |-> [type |-> "null"], depth |-> 0]
    /\ parseState = [alive |-> TRUE, unresolvedErrors |-> <<>>]
    /\ malformedModuleParseState = [alive |-> FALSE, unresolvedErrors |-> <<>>]
    /\ outTestCommands = <<>>
    /\ outErrors = <<>>
    /\ form = [keyword |-> "none", quotedModuleType |-> "none", quotedModuleString |-> "",
               moduleParsed |-> FALSE, innerReturned |-> FALSE, stringLiteral |-> FALSE,
               closed |-> FALSE, loadError |-> "none"]
    /\ emitted = [operator |-> "none", by |-> "none"]
    /\ machine = [status |-> "idle"]

\* A create or destroy in compartment c ends the time in which a clone and its
\* source are as cloneCompartment left them.
Touch(c) == [d \in {d \in DOMAIN cloneOf : d # c /\ cloneOf[d] # c} |-> cloneOf[d]]

\* Platform::RWMutex: an ExclusiveLock can be taken when no ShareableLock is held.
\* An exclusive section is one step of the model, so no state holds one.
CanLockExclusive(c) == heap[c].mutexShared = 0

\* Platform::RWMutex::ShareableLock compartmentLock(compartment->mutex)
NoShareableLock(h, c) == h
ShareableLock(h, c) == [h EXCEPT ![c].mutexShared = @ + 1]
ShareableUnlock(h, c) == [h EXCEPT ![c].mutexShared = IF @ > 0 THEN @ - 1 ELSE 0]

\* The calling thread is not inside a call of remapToClonedCompartment or
\* isInCompartment whose result is still to be taken.
NoCall == lastCall.op = "none"

\* Runtime::createCompartment
createCompartment ==
    /\ NoCall
    /\ Constructed(heap) < MaxCompartments
    /\ heap' = heap @@ (NextCompartmentAddress(heap) :>
                            NewCompartment(NextCompartmentAddress(heap)))
    /\ UNCHANGED <<cloning, cloneOf, lastCall, created>>

\* Registering a new object under a free id of its compartment's index map, in
\* an exclusive section of the compartment's mutex.
Register(h, c, object) ==
    LET a == Address(object.kind, c[2], object.id)
    IN [h @@ (a :> object) EXCEPT ![c].maps[object.kind] = @ @@ (object.id :> a)]

\* IndexMap::add: the id a new element gets, the smallest one not in use.
FreeIds(map) == {i \in Ids : ~Contains(map, i)}
NextId(map) == CHOOSE i \in FreeIds(map) : \A j \in FreeIds(map) : i <= j

CanCreate(c, k) ==
    /\ NoCall
    /\ created < MaxObjects
    /\ IsCompartment(c)
    /\ ~IsPrivate(c)
    /\ CanLockExclusive(c)
    /\ FreeIds(heap[c].maps[k]) # {}

\* createTable, createMemory, createExceptionType, createContext, createForeign
createObject ==
    \E c \in Compartments, k \in {"table", "memory", "exceptionType", "context", "foreign"} :
        /\ CanCreate(c, k)
        /\ heap' = Register(heap, c, [kind |-> k, compartment |-> c,
                                      id |-> NextId(heap[c].maps[k])])
        /\ cloneOf' = Touch(c)
        /\ created' = created + 1
        /\ UNCHANGED <<cloning, lastCall>>

\* createGlobal: a mutable global takes the smallest free slot of
\* globalDataAllocationMask, an immutable one has no slot.
FreeSlots(mask) == MutableGlobalIndices \ mask
\* Global::mutableGlobalIndex of an immutable global: no slot of the mask.
NoMutableGlobalIndex == MaxMutableGlobals
createGlobal ==
    \E c \in Compartments, isMutable \in BOOLEAN :
        /\ CanCreate(c, "global")
        /\ isMutable => FreeSlots(heap[c].globalDataAllocationMask) # {}
        /\ LET mask == heap[c].globalDataAllocationMask
               m == IF isMutable
                    THEN CHOOSE i \in FreeSlots(mask) : \A j \in FreeSlots(mask) : i <= j
                    ELSE NoMutableGlobalIndex
           IN heap' = [Register(heap, c, [kind |-> "global", compartment |-> c,
                                          id |-> NextId(heap[c].maps["global"]),
                                          mutableGlobalIndex |-> m])
                          EXCEPT ![c].globalDataAllocationMask =
                                     IF isMutable THEN @ \cup {m} ELSE @]
        /\ cloneOf' = Touch(c)
        /\ created' = created + 1
        /\ UNCHANGED <<cloning, lastCall>>

\* instantiateModule: an Instance with its LLVMJIT module.
createInstance ==
    \E c \in Compartments, j \in JitModules :
        /\ CanCreate(c, "instance")
        /\ heap' = Register(heap, c, [kind |-> "instance", compartment |-> c,
                                      id |-> NextId(heap[c].maps["instance"]),
                                      jitModule |-> j])
        /\ cloneOf' = Touch(c)
        /\ created' = created + 1
        /\ UNCHANGED <<cloning, lastCall>>

\* A Function: {instanceId, mutableData->jitModule}; it is in no index map.
createFunction ==
    \E i \in Ids \cup {UINTPTR_MAX}, j \in JitModules :
        /\ NoCall
        /\ created < MaxObjects
        /\ Address("function", j, i) \notin Addresses
        /\ heap' = heap @@ (Address("function", j, i) :>
                                [kind |-> "function", instanceId |-> i, jitModule |-> j])
        /\ created' = created + 1
        /\ UNCHANGED <<cloning, cloneOf, lastCall>>

(***************************************************************************)
(* Destruction.                                                            *)
(***************************************************************************)
\* h without the object at address a.
Free(h, a) == [b \in DOMAIN h \ {a} |-> h[b]]
\* IndexMap::removeOrFail
RemoveOrFail(map, id) == [i \in DOMAIN map \ {id} |-> map[i]]

\* ~Table, ~Memory, ~Global, ~ExceptionType, ~Instance, ~Context and the end of a
\* Foreign: the object is removed from its compartment's index map in an
\* exclusive section of the compartment's mutex; a mutable global gives its slot
\* of globalDataAllocationMask back.
destroyObject ==
    \E c \in Compartments, k \in MapKinds :
      \E object \in Registered(c, k) :
        /\ NoCall
        /\ ~IsPrivate(c)
        /\ CanLockExclusive(c)
        /\ heap' = Free([heap EXCEPT
                            ![c].maps[k] = RemoveOrFail(@, heap[object].id),
                            ![c].globalDataAllocationMask =
                                IF k = "global" THEN @ \ {heap[object].mutableGlobalIndex}
                                ELSE @],
                         object)
        /\ cloneOf' = Touch(c)
        /\ UNCHANGED <<cloning, lastCall, created>>

\* The WAVM_ASSERTs of ~Compartment without the one on foreigns.
CompartmentAssertsWithoutForeigns(h, c) ==
    /\ DOMAIN h[c].maps["memory"] = {}
    /\ DOMAIN h[c].maps["table"] = {}
    /\ DOMAIN h[c].maps["exceptionType"] = {}
    /\ DOMAIN h[c].maps["global"] = {}
    /\ DOMAIN h[c].maps["instance"] = {}
    /\ DOMAIN h[c].maps["context"] = {}

\* WAVM_ASSERT(!memories.size()); ... WAVM_ASSERT(!foreigns.size());
CompartmentAsserts(h, c) ==
    /\ DOMAIN h[c].maps["memory"] = {}
    /\ DOMAIN h[c].maps["table"] = {}
    /\ DOMAIN h[c].maps["exceptionType"] = {}
    /\ DOMAIN h[c].maps["global"] = {}
    /\ DOMAIN h[c].maps["instance"] = {}
    /\ DOMAIN h[c].maps["context"] = {}
    /\ DOMAIN h[c].maps["foreign"] = {}

\* Platform::freeAlignedVirtualPages(unalignedRuntimeData, ...);
\* runtimeData = nullptr; unalignedRuntimeData = nullptr;
ReleaseRuntimeData(h, c) ==
    [h EXCEPT ![c].pages = IF h[c].unalignedRuntimeData = "pages" THEN "freed" ELSE @,
              ![c].runtimeData = "nullptr",
              ![c].unalignedRuntimeData = "nullptr",
              ![c].kind = Destroyed]

\* What the destructor is given: a compartment with or without registered objects.
Registrations(h, c) ==
    IF \A k \in MapKinds : DOMAIN h[c].maps[k] = {} THEN "an empty compartment"
    ELSE "a compartment with objects"

\* Runtime::Compartment::~Compartment, in an exclusive section of the mutex. A
\* failed WAVM_ASSERT ends the process.
deleteCompartment ==
    \E c \in Compartments :
        /\ NoCall
        /\ ~IsPrivate(c)
        /\ CanLockExclusive(c)
        /\ IF CompartmentAsserts(heap, c)
           THEN /\ heap' = ReleaseRuntimeData(heap, c)
                /\ cloneOf' = Touch(c)
                /\ lastCall' = [op |-> "~Compartment", subject |-> Registrations(heap, c),
                                answer |-> "destroyed"]
           ELSE /\ lastCall' = [op |-> "~Compartment", subject |-> Registrations(heap, c),
                                answer |-> "assertion failure"]
                /\ UNCHANGED <<heap, cloneOf>>
        /\ UNCHANGED <<cloning, created>>

(***************************************************************************)
(* cloneCompartment, one step per loop of the function.                    *)
(***************************************************************************)
\* cloneTable, cloneMemory, cloneExceptionType: "Clones objects into a new
\* compartment with the same ID."
cloneTable(h, table, newCompartment) ==
    Register(h, newCompartment,
             [kind |-> "table", compartment |-> newCompartment, id |-> h[table].id])

cloneMemory(h, memory, newCompartment) ==
    Register(h, newCompartment,
             [kind |-> "memory", compartment |-> newCompartment, id |-> h[memory].id])

cloneExceptionType(h, exceptionType, newCompartment) ==
    Register(h, newCompartment,
             [kind |-> "exceptionType", compartment |-> newCompartment,
              id |-> h[exceptionType].id])

\* cloneInstance: the clone shares the instance's LLVMJIT module.
cloneInstance(h, instance, newCompartment) ==
    Register(h, newCompartment,
             [kind |-> "instance", compartment |-> newCompartment, id |-> h[instance].id,
              jitModule |-> h[instance].jitModule])

\* cloneGlobal: "Clone a global with same ID and mutable data offset (if mutable)
\* in a new compartment."
cloneGlobal(h, global, newCompartment) ==
    Register(h, newCompartment,
             [kind |-> "global", compartment |-> newCompartment, id |-> h[global].id,
              mutableGlobalIndex |-> h[global].mutableGlobalIndex])

cloneObject(h, object, newCompartment) ==
    CASE h[object].kind = "table" -> cloneTable(h, object, newCompartment)
      [] h[object].kind = "memory" -> cloneMemory(h, object, newCompartment)
      [] h[object].kind = "global" -> cloneGlobal(h, object, newCompartment)
      [] h[object].kind = "exceptionType" -> cloneExceptionType(h, object, newCompartment)
      [] h[object].kind = "instance" -> cloneInstance(h, object, newCompartment)

\* for(X* x : compartment->xs) { cloneX(x, newCompartment); }: an IndexMap is
\* iterated in ascending order of id; ids are those not yet visited.
RECURSIVE cloneLoop(_, _, _, _, _)
cloneLoop(h, compartment, newCompartment, k, ids) ==
    IF ids = {} THEN h
    ELSE LET id == CHOOSE i \in ids : \A j \in ids : i <= j
         IN cloneLoop(cloneObject(h, h[compartment].maps[k][id], newCompartment),
                      compartment, newCompartment, k, ids \ {id})

\* The loops of cloneCompartment with one more after the last, over the foreigns.
RECURSIVE cloneForeigns(_, _, _, _)
cloneForeigns(h, compartment, newCompartment, ids) ==
    IF ids = {} THEN h
    ELSE LET id == CHOOSE i \in ids : \A j \in ids : i <= j
         IN cloneForeigns(Register(h, newCompartment,
                                   [kind |-> "foreign", compartment |-> newCompartment,
                                    id |-> id]),
                          compartment, newCompartment, ids \ {id})
cloneAllAndForeigns(h, compartment, newCompartment, k) ==
    IF k = "instance"
    THEN cloneForeigns(cloneLoop(h, compartment, newCompartment, k,
                                 DOMAIN h[compartment].maps[k]),
                       compartment, newCompartment, DOMAIN h[compartment].maps["foreign"])
    ELSE cloneLoop(h, compartment, newCompartment, k, DOMAIN h[compartment].maps[k])

cloneAll(h, compartment, newCompartment, k) ==
    cloneLoop(h, compartment, newCompartment, k, DOMAIN h[compartment].maps[k])


\* Compartment* newCompartment = new Compartment; ShareableLock compartmentLock(...)
cloneBegin ==
    \E compartment \in Compartments :
        /\ NoCall
        /\ cloning.phase = "idle"
        /\ Constructed(heap) < MaxCompartments
        /\ heap' = ShareableLock(heap @@ (NextCompartmentAddress(heap) :>
                                            NewCompartment(NextCompartmentAddress(heap))),
                                 compartment)
        /\ cloning' = [phase |-> "tables", compartment |-> compartment,
                       newCompartment |-> NextCompartmentAddress(heap)]
        /\ UNCHANGED <<cloneOf, lastCall, created>>

\* // Clone tables.
cloneTables ==
    /\ NoCall
    /\ cloning.phase = "tables"
    /\ heap' = cloneAll(heap, cloning.compartment, cloning.newCompartment, "table")
    /\ cloning' = [cloning EXCEPT !.phase = "memories"]
    /\ UNCHANGED <<cloneOf, lastCall, created>>

\* // Clone memories.
cloneMemories ==
    /\ NoCall
    /\ cloning.phase = "memories"
    /\ heap' = cloneAll(heap, cloning.compartment, cloning.newCompartment, "memory")
    /\ cloning' = [cloning EXCEPT !.phase = "globals"]
    /\ UNCHANGED <<cloneOf, lastCall, created>>

\* // Clone globals: the allocation mask is copied, then each global is cloned.
cloneGlobals ==
    /\ NoCall
    /\ cloning.phase = "globals"
    /\ heap' = cloneAll([heap EXCEPT ![cloning.newCompartment].globalDataAllocationMask =
                                        heap[cloning.compartment].globalDataAllocationMask],
                        cloning.compartment, cloning.newCompartment, "global")
    /\ cloning' = [cloning EXCEPT !.phase = "exceptionTypes"]
    /\ UNCHANGED <<cloneOf, lastCall, created>>

\* cloneCompartment without its loop over the exception types.
cloneExceptionTypesSkipped ==
    /\ cloning.phase = "exceptionTypes"
    /\ cloning' = [cloning EXCEPT !.phase = "instances"]
    /\ UNCHANGED <<heap, cloneOf, lastCall, created>>

\* // Clone exception types.
cloneExceptionTypes ==
    /\ NoCall
    /\ cloning.phase = "exceptionTypes"
    /\ heap' = cloneAll(heap, cloning.compartment, cloning.newCompartment, "exceptionType")
    /\ cloning' = [cloning EXCEPT !.phase = "instances"]
    /\ UNCHANGED <<cloneOf, lastCall, created>>

\* // Clone instances. The function is then at its return statement, the lock held.
cloneInstances ==
    /\ NoCall
    /\ cloning.phase = "instances"
    /\ heap' = cloneAll(heap, cloning.compartment, cloning.newCompartment, "instance")
    /\ cloning' = [cloning EXCEPT !.phase = "return"]
    /\ UNCHANGED <<cloneOf, lastCall, created>>

\* return newCompartment; compartmentLock goes out of scope.
cloneReturn ==
    /\ NoCall
    /\ cloning.phase = "return"
    /\ heap' = ShareableUnlock(heap, cloning.compartment)
    /\ cloneOf' = cloneOf @@ (cloning.newCompartment :> cloning.compartment)
    /\ cloning' = [phase |-> "idle"]
    /\ UNCHANGED <<lastCall, created>>

(***************************************************************************)
(* remapToClonedCompartment and isInCompartment.                           *)
(***************************************************************************)
\* What a call does: it returns a pointer, or it does not return.
Returns(a) == [outcome |-> "return", value |-> a]
Unreachable == [outcome |-> "unreachable", value |-> Null]
AssertionFailure == [outcome |-> "assertion failure", value |-> Null]
\* A pointer to no object of the model.
Wild == Address("wild", 0, 0)

\* IndexMap::operator[]: the element under id. It asserts that the id is present;
\* without assertions the read of an absent id is undefined and may yield anything.
IndexMapGet(h, map, id) ==
    IF Contains(map, id) THEN {Returns(map[id])}
    ELSE {AssertionFailure, Returns(Wild)} \cup {Returns(a) : a \in {Null} \cup DOMAIN h}

\* remapToClonedCompartment with a table looked up in newCompartment->memories.
remapObjectWrongMap(h, object, newCompartment) ==
    IF object = Null THEN {Returns(Null)}
    ELSE IF h[object].kind = "function" THEN {Returns(object)}
    ELSE IF h[object].kind \in ClonedKinds
         THEN IndexMapGet(h, h[newCompartment].maps[IF h[object].kind = "table" THEN "memory"
                                                    ELSE h[object].kind],
                          h[object].id)
         ELSE {Unreachable}

\* Runtime::remapToClonedCompartment(const Object*, const Compartment*): the set
\* of outcomes the call can have.
remapObject(h, object, newCompartment) ==
    IF object = Null THEN {Returns(Null)}
    ELSE IF h[object].kind = "function" THEN {Returns(object)}
    ELSE CASE h[object].kind = "table" ->
                IndexMapGet(h, h[newCompartment].maps["table"], h[object].id)
           [] h[object].kind = "memory" ->
                IndexMapGet(h, h[newCompartment].maps["memory"], h[object].id)
           [] h[object].kind = "global" ->
                IndexMapGet(h, h[newCompartment].maps["global"], h[object].id)
           [] h[object].kind = "exceptionType" ->
                IndexMapGet(h, h[newCompartment].maps["exceptionType"], h[object].id)
           [] h[object].kind = "instance" ->
                IndexMapGet(h, h[newCompartment].maps["instance"], h[object].id)
           [] OTHER -> {Unreachable}

\* The overloads for Function*, Table*, Memory*, Global*, ExceptionType*, Instance*
\* and Foreign*; k is the static type of the pointer.
remapTyped(h, k, object, newCompartment) ==
    IF k = "function" THEN {Returns(object)}
    ELSE IF object = Null THEN {Returns(Null)}
    ELSE IndexMapGet(h, h[newCompartment].maps[k], h[object].id)

TypedKinds == ClonedKinds \cup {"function", "foreign"}

\* overload "Object" is the Object* one, any other the typed one of that name.
remapToClonedCompartment(h, overload, object, newCompartment) ==
    IF overload = "Object" THEN remapObject(h, object, newCompartment)
    ELSE remapTyped(h, overload, object, newCompartment)

\* The overloads a pointer to object can be passed to.
Overloads(object) ==
    IF object = Null THEN {"Object"} \cup TypedKinds
    ELSE {"Object"} \cup ({heap[object].kind} \cap TypedKinds)

\* Compartments other threads can hold a pointer to.
PublicCompartments == {c \in Compartments : ~IsPrivate(c)}

\* What a call is about: the kind of the object it is given.
Subject(h, object) ==
    IF object = Null THEN "null"
    ELSE IF h[object].kind # "function" THEN h[object].kind
    ELSE IF h[object].instanceId = UINTPTR_MAX THEN "function of no instance"
    ELSE "function of an instance"

\* What remapToClonedCompartment(object, newCompartment) answers with result r:
\* it does not return, or it returns null, the object itself, the object that
\* newCompartment holds for the kind and id of object, or another pointer.
Answer(h, object, newCompartment, r) ==
    IF r.outcome # "return" THEN r.outcome
    ELSE IF r.value = Null THEN "null"
    ELSE IF r.value = object THEN "the object"
    ELSE IF /\ r.value \in DOMAIN h
            /\ h[r.value].kind = h[object].kind
            /\ h[r.value].kind \in MapKinds
            /\ h[r.value].compartment = newCompartment
            /\ h[r.value].id = h[object].id
         THEN "its counterpart"
    ELSE "another pointer"

\* A call of remapToClonedCompartment.
remap ==
  /\ NoCall
  /\ \E object \in {Null} \cup Addresses, newCompartment \in PublicCompartments :
      \E overload \in Overloads(object) :
        \E r \in remapToClonedCompartment(heap, overload, object, newCompartment) :
            /\ lastCall' = [op |-> "remap", subject |-> Subject(heap, object),
                            answer |-> Answer(heap, object, newCompartment, r)]
            /\ UNCHANGED <<heap, cloning, cloneOf, created>>

\* isInCompartment without the comparison of the LLVMJIT modules.
isInCompartmentAnyModule(h, object, compartment) ==
    IF h[object].kind = "function"
    THEN IF h[object].instanceId = UINTPTR_MAX THEN TRUE
         ELSE Contains(h[compartment].maps["instance"], h[object].instanceId)
    ELSE h[object].compartment = compartment

\* Runtime::isInCompartment
isInCompartment(h, object, compartment) ==
    IF h[object].kind = "function"
    THEN IF h[object].instanceId = UINTPTR_MAX THEN TRUE
         ELSE IF ~Contains(h[compartment].maps["instance"], h[object].instanceId) THEN FALSE
         ELSE h[h[compartment].maps["instance"][h[object].instanceId]].jitModule
                  = h[object].jitModule
    ELSE h[object].compartment = compartment

\* A call of isInCompartment.
callIsInCompartment ==
  /\ NoCall
  /\ \E object \in Addresses, compartment \in PublicCompartments :
        /\ lastCall' = [op |-> "isInCompartment", subject |-> Subject(heap, object),
                        answer |-> isInCompartment(heap, object, compartment)]
        /\ UNCHANGED <<heap, cloning, cloneOf, created>>

\* The caller takes the result of its call; a call that ended the process
\* (WAVM_UNREACHABLE, a failed WAVM_ASSERT) has no result to take.
callReturn ==
    /\ ~NoCall
    /\ IF lastCall.op = "isInCompartment" THEN TRUE
       ELSE lastCall.answer \notin {"unreachable", "assertion failure"}
    /\ lastCall' = [op |-> "none"]
    /\ UNCHANGED <<heap, cloning, cloneOf, created>>

NextCompartment ==
  /\ UNCHANGED <<hostVars, quotaVars, trapVars, parseVars, emitVars>>
  /\
    \/ createCompartment
    \/ createObject
    \/ createGlobal
    \/ createInstance
    \/ createFunction
    \/ destroyObject
    \/ deleteCompartment
    \/ cloneBegin
    \/ cloneTables
    \/ cloneMemories
    \/ cloneGlobals
    \/ cloneExceptionTypes
    \/ cloneInstances
    \/ cloneReturn
    \/ remap
    \/ callIsInCompartment
    \/ callReturn

SpecCompartment == Init /\ [][NextCompartment]_vars

(***************************************************************************)
(* Claims about the compartment manager.                                   *)
(***************************************************************************)
\* The ids present in c's index map of kind k.
IdsOf(c, k) == DOMAIN heap[c].maps[k]

\* newCompartment holds what cloneCompartment(compartment) is to return.
IsCloneOf(newCompartment, compartment) ==
    /\ newCompartment # compartment
    /\ \A k \in ClonedKinds : IdsOf(newCompartment, k) = IdsOf(compartment, k)
    /\ \A i \in IdsOf(compartment, "global") :
          heap[heap[newCompartment].maps["global"][i]].mutableGlobalIndex
              = heap[heap[compartment].maps["global"][i]].mutableGlobalIndex

\* C1: when cloneCompartment(C) returns C', C' is a new compartment, for each of
\* the kinds table, memory, global, exception type and instance the ids present
\* in C' are the ids present in C, and every global of C' has the
\* mutableGlobalIndex of the global of C with its id; this stays so until an
\* object is created in C or C'.
C1_CloneKeepsIds ==
    /\ cloning.phase = "return" => IsCloneOf(cloning.newCompartment, cloning.compartment)
    /\ \A d \in DOMAIN cloneOf : IsCloneOf(d, cloneOf[d])

\* A clone at its return statement whose source holds a global and another object.
C1_Witness ==
    /\ cloning.phase = "return"
    /\ IdsOf(cloning.compartment, "global") # {}
    /\ \E k \in ClonedKinds \ {"global"} : IdsOf(cloning.compartment, k) # {}

\* Remapping x to compartment `to` and the result to compartment `back`, by any
\* of the overloads that take the pointers, always returns and returns x.
RoundTrip(x, to, back) ==
    \A o1 \in Overloads(x) :
      \A r1 \in remapToClonedCompartment(heap, o1, x, to) :
        /\ r1.outcome = "return"
        /\ r1.value \in Addresses
        /\ \A o2 \in Overloads(r1.value) :
             remapToClonedCompartment(heap, o2, r1.value, back) = {Returns(x)}

\* C2: for C' = cloneCompartment(C) and any table, memory, global, exception
\* type or instance x of C, remapping x to C' and the result back to C gives x;
\* a Function is remapped to itself in both directions.
C2_RemapRoundTrip ==
    \A d \in DOMAIN cloneOf :
        /\ \A k \in ClonedKinds : \A x \in Registered(cloneOf[d], k) :
               RoundTrip(x, d, cloneOf[d])
        /\ \A f \in Functions : \A o \in Overloads(f) :
               /\ remapToClonedCompartment(heap, o, f, d) = {Returns(f)}
               /\ remapToClonedCompartment(heap, o, f, cloneOf[d]) = {Returns(f)}

\* A global has been remapped, to its counterpart in the compartment given,
\* while a compartment that holds a global and its clone are as cloneCompartment
\* left them.
C2_Witness ==
    /\ lastCall.op = "remap"
    /\ lastCall.subject = "global"
    /\ lastCall.answer = "its counterpart"
    /\ \E d \in DOMAIN cloneOf : Registered(cloneOf[d], "global") # {}

\* What the membership test is to answer for object o and compartment c.
InCompartment(o, c) ==
    IF heap[o].kind = "function"
    THEN \/ heap[o].instanceId = UINTPTR_MAX
         \/ \E i \in Registered(c, "instance") :
               heap[i].id = heap[o].instanceId /\ heap[i].jitModule = heap[o].jitModule
    ELSE heap[o].compartment = c

\* C10: isInCompartment(f, C) is true for a Function f with instanceId
\* UINTPTR_MAX, and otherwise true exactly when C's instance map holds
\* f.instanceId and that instance's jitModule is f's; for any other object it is
\* true exactly when the object's compartment is C.
C10_IsInCompartment ==
    \A o \in Addresses, c \in Compartments :
        isInCompartment(heap, o, c) = InCompartment(o, c)

\* isInCompartment has answered true for a Function of an instance of the compartment.
C10_Witness ==
    /\ lastCall.op = "isInCompartment"
    /\ lastCall.subject = "function of an instance"
    /\ lastCall.answer = TRUE

\* C11: a compartment whose destructor has run had all seven index maps empty,
\* its pages are released and runtimeData and unalignedRuntimeData are null; the
\* destructor ends in an assertion failure, and destroys nothing, exactly when
\* it is given a compartment with an object still registered.
C11_DestroyedWhenEmpty ==
    /\ \A a \in DOMAIN heap :
          heap[a].kind = Destroyed =>
              /\ \A k \in MapKinds : DOMAIN heap[a].maps[k] = {}
              /\ heap[a].pages = "freed"
              /\ heap[a].runtimeData = "nullptr"
              /\ heap[a].unalignedRuntimeData = "nullptr"
    /\ lastCall.op = "~Compartment" =>
          /\ lastCall.subject = "a compartment with objects"
                <=> lastCall.answer = "assertion failure"
          /\ lastCall.subject = "an empty compartment" <=> lastCall.answer = "destroyed"

\* The destructor has destroyed one compartment and, given another one that
\* holds an object, has ended in an assertion failure.
C11_Witness ==
    /\ \E a \in DOMAIN heap : heap[a].kind = Destroyed
    /\ lastCall.op = "~Compartment"
    /\ lastCall.answer = "assertion failure"

\* C15: the compartment cloneCompartment fills, up to and at its return and
\* after it until an object is created in it, holds no context and no foreign,
\* whatever contexts and foreigns its source holds.
C15_ContextsAndForeignsNotCloned ==
    /\ cloning.phase # "idle" =>
          /\ DOMAIN heap[cloning.newCompartment].maps["context"] = {}
          /\ DOMAIN heap[cloning.newCompartment].maps["foreign"] = {}
    /\ \A d \in DOMAIN cloneOf :
          /\ DOMAIN heap[d].maps["context"] = {}
          /\ DOMAIN heap[d].maps["foreign"] = {}

\* A clone at its return statement whose source holds a context and a foreign.
C15_Witness ==
    /\ cloning.phase = "return"
    /\ DOMAIN heap[cloning.compartment].maps["context"] # {}
    /\ DOMAIN heap[cloning.compartment].maps["foreign"] # {}

\* C16: while cloneCompartment(C) is between its first and its last loop, a
\* ShareableLock on C's mutex is held, and no step changes C's index maps, the
\* objects registered in them or C's globalDataAllocationMask: what is cloned is
\* C as it was when the lock was taken.
C16_CloneHoldsShareableLock ==
    /\ [](cloning.phase # "idle" => heap[cloning.compartment].mutexShared > 0)
    /\ [][cloning.phase # "idle" =>
            /\ cloning.compartment \in DOMAIN heap'
            /\ heap'[cloning.compartment].kind = "compartment"
            /\ heap'[cloning.compartment].maps = heap[cloning.compartment].maps
            /\ heap'[cloning.compartment].globalDataAllocationMask
                   = heap[cloning.compartment].globalDataAllocationMask
            /\ \A k \in MapKinds : \A o \in Registered(cloning.compartment, k) :
                   o \in DOMAIN heap' /\ heap'[o] = heap[o]]_vars

\* A clone is past its loop over the globals while its source holds an object
\* that could be destroyed and has room for another that could be created.
C16_Witness ==
    /\ cloning.phase \in {"exceptionTypes", "instances"}
    /\ created < MaxObjects
    /\ \E k \in MapKinds :
          /\ Registered(cloning.compartment, k) # {}
          /\ FreeIds(heap[cloning.compartment].maps[k]) # {}

\* What remapToClonedCompartment(object, newCompartment) is to do: return null
\* for null, a Function itself, for the five cloned kinds the object
\* newCompartment holds under the id, and raise "unreachable" for the rest.
Remapped(object, newCompartment) ==
    IF object = Null THEN Returns(Null)
    ELSE IF heap[object].kind = "function" THEN Returns(object)
    ELSE IF heap[object].kind \in ClonedKinds
         THEN Returns(heap[newCompartment].maps[heap[object].kind][heap[object].id])
         ELSE Unreachable

\* The objects and compartments the statement is about: a table, memory, global,
\* exception type or instance is given with a compartment that holds its id.
Remappable(object, newCompartment) ==
    (object # Null /\ heap[object].kind \in ClonedKinds)
        => Contains(heap[newCompartment].maps[heap[object].kind], heap[object].id)

\* C17: every overload of remapToClonedCompartment that takes the object returns
\* null for null, a Function unchanged, the object of the same id in
\* newCompartment for a table, memory, global, exception type or instance, and
\* raises "unreachable" for a Context, a Compartment or a Foreign.
C17_Remap ==
    \A object \in {Null} \cup Addresses, newCompartment \in PublicCompartments :
        Remappable(object, newCompartment) =>
            \A overload \in Overloads(object) :
                remapToClonedCompartment(heap, overload, object, newCompartment)
                    = {Remapped(object, newCompartment)}

\* The same for every overload but the one that takes a Foreign*.
C17_RemapButForeignOverload ==
    \A object \in {Null} \cup Addresses, newCompartment \in PublicCompartments :
        Remappable(object, newCompartment) =>
            \A overload \in Overloads(object) \ {"foreign"} :
                remapToClonedCompartment(heap, overload, object, newCompartment)
                    = {Remapped(object, newCompartment)}

\* remapToClonedCompartment, given a Foreign, has returned the Foreign that the
\* compartment holds under the same id.
C17_Divergence ==
    /\ lastCall.op = "remap"
    /\ lastCall.subject = "foreign"
    /\ lastCall.answer \in {"its counterpart", "the object"}

(***************************************************************************)
(* makeHostRef (ParseTests.cpp), called from several threads: one step per  *)
(* statement.                                                              *)
(***************************************************************************)
\* HostRef::HostRef(): function(nullptr). Functions of hostFunctions have the
\* addresses 1..Len(hostFunctions), nullptr is 0.
NullFunction == 0

\* parseConstExpression, case t_ref_host: makeHostRef(parseU32(cursor))
hostCall(t) ==
    /\ hostCalls[t].pc = "idle"
    /\ \E index \in HostIndices :
          hostCalls' = [hostCalls EXCEPT ![t] = [pc |-> "lock", index |-> index]]
    /\ UNCHANGED <<indexToHostRefMap, indexToHostRefMapMutex, hostFunctions, hostReturned>>

\* Platform::Mutex::Lock without taking the mutex.
hostNoLock(t) ==
    /\ hostCalls[t].pc = "lock"
    /\ hostCalls' = [hostCalls EXCEPT ![t].pc = "getOrAdd"]
    /\ UNCHANGED <<indexToHostRefMap, indexToHostRefMapMutex, hostFunctions, hostReturned>>

\* Platform::Mutex::Lock lock(indexToHostRefMapMutex);
hostLock(t) ==
    /\ hostCalls[t].pc = "lock"
    /\ indexToHostRefMapMutex = 0
    /\ indexToHostRefMapMutex' = t
    /\ hostCalls' = [hostCalls EXCEPT ![t].pc = "getOrAdd"]
    /\ UNCHANGED <<indexToHostRefMap, hostFunctions, hostReturned>>

\* HostRef& hostRef = indexToHostRefMap.getOrAdd(index, HostRef());
hostGetOrAdd(t) ==
    /\ hostCalls[t].pc = "getOrAdd"
    /\ indexToHostRefMap' =
          IF Contains(indexToHostRefMap, hostCalls[t].index) THEN indexToHostRefMap
          ELSE indexToHostRefMap @@ (hostCalls[t].index :> NullFunction)
    /\ hostCalls' = [hostCalls EXCEPT ![t].pc = "test"]
    /\ UNCHANGED <<indexToHostRefMapMutex, hostFunctions, hostReturned>>

\* if(!hostRef.function)
hostTest(t) ==
    /\ hostCalls[t].pc = "test"
    /\ hostCalls' = [hostCalls EXCEPT ![t].pc =
                        IF indexToHostRefMap[hostCalls[t].index] = NullFunction
                        THEN "new" ELSE "return"]
    /\ UNCHANGED <<indexToHostRefMap, indexToHostRefMapMutex, hostFunctions, hostReturned>>

\* hostRef.function = new Runtime::Function(functionMutableData, UINTPTR_MAX, ...)
hostNew(t) ==
    /\ hostCalls[t].pc = "new"
    /\ hostFunctions' = Append(hostFunctions,
                               [index |-> hostCalls[t].index, instanceId |-> UINTPTR_MAX])
    /\ indexToHostRefMap' =
          [indexToHostRefMap EXCEPT ![hostCalls[t].index] = Len(hostFunctions) + 1]
    /\ hostCalls' = [hostCalls EXCEPT ![t].pc = "return"]
    /\ UNCHANGED <<indexToHostRefMapMutex, hostReturned>>

\* return hostRef.function; the lock goes out of scope.
hostReturn(t) ==
    /\ hostCalls[t].pc = "return"
    /\ hostReturned' = hostReturned \cup
                          {<<hostCalls[t].index, indexToHostRefMap[hostCalls[t].index]>>}
    /\ indexToHostRefMapMutex' =
          IF indexToHostRefMapMutex = t THEN 0 ELSE indexToHostRefMapMutex
    /\ hostCalls' = [hostCalls EXCEPT ![t].pc = "idle"]
    /\ UNCHANGED <<indexToHostRefMap, hostFunctions>>

NextHostRef ==
  /\ UNCHANGED <<compVars, quotaVars, trapVars, parseVars, emitVars>>
  /\ \E t \in HostThreads :
        \/ hostCall(t)
        \/ hostLock(t)
        \/ hostGetOrAdd(t)
        \/ hostTest(t)
        \/ hostNew(t)
        \/ hostReturn(t)

SpecHostRef == Init /\ [][NextHostRef]_vars

\* C3: after any calls of makeHostRef, also from several threads at once, the
\* calls with the same index have returned the same Function, the calls with
\* different indices different Functions, none returned null, and exactly one
\* Function has been allocated for each index asked for.
C3_HostRefInterned ==
    /\ \A p \in hostReturned, q \in hostReturned : (p[1] = q[1]) <=> (p[2] = q[2])
    /\ \A p \in hostReturned :
          /\ p[2] \in 1..Len(hostFunctions)
          /\ hostFunctions[p[2]].index = p[1]
          /\ Cardinality({f \in 1..Len(hostFunctions) : hostFunctions[f].index = p[1]}) = 1
    /\ \A f \in 1..Len(hostFunctions), g \in 1..Len(hostFunctions) :
          hostFunctions[f].index = hostFunctions[g].index => f = g

\* Calls with both indices have returned, and two threads are inside makeHostRef
\* for the same index, one of them waiting for the mutex.
C3_Witness ==
    /\ Cardinality(hostReturned) = 2
    /\ \E t \in HostThreads, u \in HostThreads :
          /\ t # u
          /\ hostCalls[t].index = hostCalls[u].index
          /\ hostCalls[t].pc = "return"
          /\ hostCalls[u].pc = "lock"

(***************************************************************************)
(* ResourceQuota::CurrentAndMax<Uptr> (RuntimePrivate.h), used by several   *)
(* threads. A thread frees only what it has allocated.                     *)
(***************************************************************************)
\* Arithmetic of the unsigned type Uptr.
WrapUptr(x) == x % (2^UptrBits)

\* The largest size of a thread's entry in the ledger: a thread whose entry
\* would pass it does not start the call.
MaxLedger == 3

\* A call that does not wait for the mutex to be free.
quotaLockNoMutex(t) ==
    /\ quotaCalls[t].pc = "idle"
    /\ \E op \in {"allocate", "free", "setMax"}, arg \in Words :
          /\ op = "free" => arg <= quota.current
          /\ op = "free" => quotaLedger[t] - arg >= 0 - MaxLedger
          /\ op = "allocate" => quotaLedger[t] + arg <= MaxLedger
          /\ quotaCalls' = [quotaCalls EXCEPT ![t] =
                               [pc |-> op, op |-> op, arg |-> arg, result |-> FALSE,
                                before |-> quota]]
    /\ quota' = [quota EXCEPT !.mutex = t]
    /\ UNCHANGED quotaLedger

\* A call of allocate, free or setMax: Platform::RWMutex::ExclusiveLock
\* lock(mutex) is its first statement, before is the counter as the call finds
\* it. A caller frees no more than has been allocated.
quotaLock(t) ==
    /\ quotaCalls[t].pc = "idle"
    /\ quota.mutex = 0
    /\ \E op \in {"allocate", "free", "setMax"}, arg \in Words :
          /\ op = "free" => arg <= quota.current
          /\ op = "free" => quotaLedger[t] - arg >= 0 - MaxLedger
          /\ op = "allocate" => quotaLedger[t] + arg <= MaxLedger
          /\ quotaCalls' = [quotaCalls EXCEPT ![t] =
                               [pc |-> op, op |-> op, arg |-> arg, result |-> FALSE,
                                before |-> quota]]
    /\ quota' = [quota EXCEPT !.mutex = t]
    /\ UNCHANGED quotaLedger

\* allocate without the test for overflow.
allocateTestNoOverflowTest(current, max, delta) ==
    IF WrapUptr(current + delta) > max THEN FALSE
    ELSE TRUE

\* allocate: whether both tests let the allocation through.
\*   if(current + delta < current) { return false; }
\*   if(current + delta > max) { return false; }
allocateTest(current, max, delta) ==
    IF WrapUptr(current + delta) < current THEN FALSE
    ELSE IF WrapUptr(current + delta) > max THEN FALSE
    ELSE TRUE

\* allocate, up to a return false.
quotaAllocateTest(t) ==
    /\ quotaCalls[t].pc = "allocate"
    /\ quotaCalls' = [quotaCalls EXCEPT
                         ![t].pc = IF allocateTest(quota.current, quota.max, quotaCalls[t].arg)
                                   THEN "add" ELSE "return",
                         ![t].result = FALSE]
    /\ UNCHANGED <<quota, quotaLedger>>

\* current += delta; return true;
quotaAllocateAdd(t) ==
    /\ quotaCalls[t].pc = "add"
    /\ quota' = [quota EXCEPT !.current = WrapUptr(@ + quotaCalls[t].arg)]
    /\ quotaCalls' = [quotaCalls EXCEPT ![t].pc = "return", ![t].result = TRUE]
    /\ quotaLedger' = [quotaLedger EXCEPT ![t] = @ + quotaCalls[t].arg]

\* free: WAVM_ASSERT(current - delta <= current); current -= delta;
quotaFree(t) ==
    /\ quotaCalls[t].pc = "free"
    /\ quota' = [quota EXCEPT !.current = WrapUptr(@ + 2^UptrBits - quotaCalls[t].arg)]
    /\ quotaCalls' = [quotaCalls EXCEPT ![t].pc = "return"]
    /\ quotaLedger' = [quotaLedger EXCEPT ![t] = @ - quotaCalls[t].arg]

\* setMax: max = newMax;
quotaSetMax(t) ==
    /\ quotaCalls[t].pc = "setMax"
    /\ quota' = [quota EXCEPT !.max = quotaCalls[t].arg]
    /\ quotaCalls' = [quotaCalls EXCEPT ![t].pc = "return"]
    /\ UNCHANGED quotaLedger

\* The call returns and its lock goes out of scope.
quotaReturn(t) ==
    /\ quotaCalls[t].pc = "return"
    /\ quota' = [quota EXCEPT !.mutex = IF @ = t THEN 0 ELSE @]
    /\ quotaCalls' = [quotaCalls EXCEPT ![t] = [pc |-> "idle"]]
    /\ UNCHANGED quotaLedger

NextQuota ==
  /\ UNCHANGED <<compVars, hostVars, trapVars, parseVars, emitVars>>
  /\ \E t \in QuotaThreads :
        \/ quotaLock(t)
        \/ quotaAllocateTest(t)
        \/ quotaAllocateAdd(t)
        \/ quotaFree(t)
        \/ quotaSetMax(t)
        \/ quotaReturn(t)

SpecQuota == Init /\ [][NextQuota]_vars

\* C9: allocate(delta) returns false and leaves current and max as they were
\* when current + delta overflows Uptr or exceeds max; otherwise it returns
\* true, current is larger by exactly delta and max is as it was.
C9_Allocate ==
    \A t \in QuotaThreads :
        quotaCalls[t].pc = "return" /\ quotaCalls[t].op = "allocate" =>
            LET before == quotaCalls[t].before
                delta == quotaCalls[t].arg
            IN IF before.current + delta > UINTPTR_MAX \/ before.current + delta > before.max
               THEN /\ quotaCalls[t].result = FALSE
                    /\ quota.current = before.current
                    /\ quota.max = before.max
               ELSE /\ quotaCalls[t].result = TRUE
                    /\ quota.current = before.current + delta
                    /\ quota.max = before.max

\* An allocate whose sum overflows Uptr, though the wrapped sum is within max,
\* has returned.
C9_Witness ==
    \E t \in QuotaThreads :
        /\ quotaCalls[t].pc = "return"
        /\ quotaCalls[t].op = "allocate"
        /\ quotaCalls[t].before.current + quotaCalls[t].arg > UINTPTR_MAX
        /\ WrapUptr(quotaCalls[t].before.current + quotaCalls[t].arg)
              <= quotaCalls[t].before.max
        /\ quotaCalls[t].result = FALSE

\* C27: current <= max in every state that calls of allocate(delta), of
\* free(delta) with delta not larger than current, and of setMax(newMax) lead
\* to.
C27_CurrentWithinMax == quota.current <= quota.max

\* setMax has returned with the counter above its maximum: something was
\* allocated, and setMax was called with less.
C27_Divergence ==
    \E t \in QuotaThreads :
        /\ quotaCalls[t].pc = "return"
        /\ quotaCalls[t].op = "setMax"
        /\ quotaCalls[t].before.current <= quotaCalls[t].before.max
        /\ quotaCalls[t].arg < quota.current
        /\ quota.current > quota.max

\* What holds of C27: allocate and free keep current <= max, and so does
\* setMax(newMax) with newMax not smaller than current.
C27_CurrentWithinMaxUnlessLowered ==
    \A t \in QuotaThreads :
        (/\ quotaCalls[t].pc = "return"
         /\ quotaCalls[t].before.current <= quotaCalls[t].before.max
         /\ (quotaCalls[t].op = "setMax" => quotaCalls[t].arg >= quotaCalls[t].before.current))
            => quota.current <= quota.max

\* The sum of f over the set S.
RECURSIVE SumOver(_, _)
SumOver(f, S) ==
    IF S = {} THEN 0 ELSE LET t == CHOOSE t \in S : TRUE IN f[t] + SumOver(f, S \ {t})

\* C28: with several threads calling allocate and free on one counter, the
\* test and the update of a call are one step for the other threads: at most
\* one thread is inside a call past its lock; current is the sum of the deltas
\* of the allocate calls that succeeded less the sum of the deltas freed, so
\* no update is lost; and an allocate that returns true leaves the counter
\* raised by its delta and, max being what the call found, within max.
C28_AllocateAndFreeAreAtomic ==
    /\ Cardinality({t \in QuotaThreads : quotaCalls[t].pc # "idle"}) <= 1
    /\ \A t \in QuotaThreads : quotaCalls[t].pc # "idle" => quota.mutex = t
    /\ quota.current = SumOver(quotaLedger, QuotaThreads)
    /\ \A t \in QuotaThreads :
          (quotaCalls[t].pc = "return" /\ quotaCalls[t].op = "allocate"
                                       /\ quotaCalls[t].result) =>
              /\ quota.max = quotaCalls[t].before.max
              /\ quota.current = quotaCalls[t].before.current + quotaCalls[t].arg
              /\ quota.current <= quota.max

\* Both threads have allocated, and an allocate of one of them has returned
\* false because the two together are at the maximum.
C28_Witness ==
    /\ \A t \in QuotaThreads : quotaLedger[t] > 0
    /\ quota.current = quota.max
    /\ \E t \in QuotaThreads :
          /\ quotaCalls[t].pc = "return"
          /\ quotaCalls[t].op = "allocate"
          /\ quotaCalls[t].arg > 0
          /\ quotaCalls[t].arg <= quota.max
          /\ ~quotaCalls[t].result

(***************************************************************************)
(* The test-script parser: strings.                                        *)
(* A std::string is written as a TLA+ string. NUL stands for the byte 0,   *)
(* which the escape \00 of a WAST string literal puts into a string.       *)
(***************************************************************************)
NUL == "@"

Min(S) == CHOOSE i \in S : \A j \in S : i <= j

\* The first n characters of s, all of s when it is shorter.
Take(s, n) == SubSeq(s, 1, IF n < Len(s) THEN n ELSE Len(s))

\* std::string::c_str() as the C string functions read it: the characters up
\* to the first byte 0.
c_str(s) ==
    LET ends == {i \in 1..Len(s) : SubSeq(s, i, i) = NUL}
    IN IF ends = {} THEN s ELSE SubSeq(s, 1, Min(ends) - 1)

\* strcmp: 0 when the two C strings are equal, not 0 otherwise.
strcmp(a, b) == IF c_str(a) = c_str(b) THEN 0 ELSE 1

\* strncmp: as strcmp, over at most n characters of each C string; the
\* terminating byte 0 takes part in the comparison.
strncmp(a, b, n) ==
    IF Take(c_str(a) \o NUL, n) = Take(c_str(b) \o NUL, n) THEN 0 ELSE 1

\* stringStartsWith: numPrefixChars is the size of the literal, its
\* terminating byte 0 included.
stringStartsWith(string, prefix) ==
    LET numPrefixChars == Len(prefix) + 1
    IN strncmp(string, prefix, numPrefixChars - 1) = 0

(***************************************************************************)
(* The test-script parser: assert_trap and assert_exhaustion, from the     *)
(* return of parseAction to the end of the case.                           *)
(***************************************************************************)
\* The string literals of the classifier.
TrapLiterals ==
    { "out of bounds memory access", "out of bounds data segment access",
      "out of bounds elem segment access", "out of bounds", "call stack exhausted",
      "integer overflow", "integer divide by zero", "invalid conversion to integer",
      "unaligned atomic", "unreachable", "indirect call", "undefined", "uninitialized",
      "invalid argument", "element segment dropped", "data segment dropped" }

\* The expected-error strings a script gives: each literal of the classifier,
\* the literal with more characters after it, the literal without its last
\* character, the literal followed by a byte 0 and more characters, and
\* strings that are none of these.
TrapStrings ==
    TrapLiterals
        \cup {l \o " x" : l \in TrapLiterals}
        \cup {SubSeq(l, 1, Len(l) - 1) : l \in TrapLiterals}
        \cup {l \o NUL \o "x" : l \in TrapLiterals}
        \cup {"nonsense", "", NUL \o "unreachable"}

NoExpectedTrapType == "none"
NullCommand == [type |-> "null"]

\* The chain of tests on expectedErrorMessage.c_str(); NoExpectedTrapType
\* stands for its last else.
ExpectedTrapType(expectedErrorMessage) ==
    LET s == expectedErrorMessage
    IN  IF strcmp(s, "out of bounds memory access") = 0 THEN "outOfBoundsMemoryAccess"
        ELSE IF stringStartsWith(s, "out of bounds data segment access")
             THEN "outOfBoundsDataSegmentAccess"
        ELSE IF stringStartsWith(s, "out of bounds elem segment access")
             THEN "outOfBoundsElemSegmentAccess"
        ELSE IF stringStartsWith(s, "out of bounds") THEN "outOfBounds"
        ELSE IF strcmp(s, "call stack exhausted") = 0 THEN "stackOverflow"
        ELSE IF strcmp(s, "integer overflow") = 0
             THEN "integerDivideByZeroOrIntegerOverflow"
        ELSE IF strcmp(s, "integer divide by zero") = 0
             THEN "integerDivideByZeroOrIntegerOverflow"
        ELSE IF strcmp(s, "invalid conversion to integer") = 0 THEN "invalidFloatOperation"
        ELSE IF strcmp(s, "unaligned atomic") = 0 THEN "misalignedAtomicMemoryAccess"
        ELSE IF stringStartsWith(s, "unreachable") THEN "reachedUnreachable"
        ELSE IF stringStartsWith(s, "indirect call") THEN "indirectCallSignatureMismatch"
        ELSE IF stringStartsWith(s, "undefined") THEN "outOfBoundsTableAccess"
        ELSE IF stringStartsWith(s, "uninitialized") THEN "uninitializedTableElement"
        ELSE IF stringStartsWith(s, "invalid argument") THEN "invalidArgument"
        ELSE IF strcmp(s, "element segment dropped") = 0 THEN "invalidArgument"
        ELSE IF strcmp(s, "data segment dropped") = 0 THEN "invalidArgument"
        ELSE NoExpectedTrapType

\* case t_assert_exhaustion: case t_assert_trap: ++cursor->nextToken;
\* parseAction returns an action, or none after it recovered from an error.
trapParseAction ==
    /\ trap.pc = "parseAction"
    /\ \E keyword \in {"t_assert_trap", "t_assert_exhaustion"},
          action \in {"none", "invoke", "get", "module"} :
            trap' = [trap EXCEPT !.pc = "tryParseString", !.keyword = keyword,
                                 !.action = action]
    /\ UNCHANGED trapParseState

\* if(!tryParseString(cursor, expectedErrorMessage)): the next token is a
\* string literal, or is not.
trapTryParseString ==
    /\ trap.pc = "tryParseString"
    /\ \/ /\ \E s \in TrapStrings :
                trap' = [trap EXCEPT !.pc = "classify", !.stringLiteral = TRUE,
                                     !.expectedErrorMessage = s]
          /\ UNCHANGED trapParseState
       \/ /\ trap' = [trap EXCEPT !.pc = "thrown", !.exception = "RecoverParseException"]
          /\ trapParseState' = [trapParseState EXCEPT !.unresolvedErrors =
                                    Append(@, "expected string literal")]

\* The classification and what follows it: new AssertTrapCommand, or
\* parseErrorf and throw RecoverParseException().
trapClassify ==
    /\ trap.pc = "classify"
    /\ LET expectedType == ExpectedTrapType(trap.expectedErrorMessage)
       IN IF expectedType = NoExpectedTrapType
          THEN /\ trap' = [trap EXCEPT !.pc = "thrown",
                                       !.exception = "RecoverParseException"]
               /\ trapParseState' = [trapParseState EXCEPT !.unresolvedErrors =
                                         Append(@, "unrecognized trap type")]
          ELSE /\ trap' = [trap EXCEPT !.pc = "break", !.result =
                               [type |-> "assert_trap", action |-> trap.action,
                                expectedType |-> expectedType]]
               /\ UNCHANGED trapParseState

NextTrap ==
  /\ UNCHANGED <<compVars, hostVars, quotaVars, parseVars, emitVars>>
  /\ \/ trapParseAction
     \/ trapTryParseString
     \/ trapClassify

SpecTrap == Init /\ [][NextTrap]_vars

\* The table of the classifier as the specification gives it: the rows in
\* their order, each an exact match or a prefix match of the whole string.
TrapTable ==
    << [match |-> "exact",  text |-> "out of bounds memory access",
        type |-> "outOfBoundsMemoryAccess"],
       [match |-> "prefix", text |-> "out of bounds data segment access",
        type |-> "outOfBoundsDataSegmentAccess"],
       [match |-> "prefix", text |-> "out of bounds elem segment access",
        type |-> "outOfBoundsElemSegmentAccess"],
       [match |-> "prefix", text |-> "out of bounds", type |-> "outOfBounds"],
       [match |-> "exact",  text |-> "call stack exhausted", type |-> "stackOverflow"],
       [match |-> "exact",  text |-> "integer overflow",
        type |-> "integerDivideByZeroOrIntegerOverflow"],
       [match |-> "exact",  text |-> "integer divide by zero",
        type |-> "integerDivideByZeroOrIntegerOverflow"],
       [match |-> "exact",  text |-> "invalid conversion to integer",
        type |-> "invalidFloatOperation"],
       [match |-> "exact",  text |-> "unaligned atomic",
        type |-> "misalignedAtomicMemoryAccess"],
       [match |-> "prefix", text |-> "unreachable", type |-> "reachedUnreachable"],
       [match |-> "prefix", text |-> "indirect call",
        type |-> "indirectCallSignatureMismatch"],
       [match |-> "prefix", text |-> "undefined", type |-> "outOfBoundsTableAccess"],
       [match |-> "prefix", text |-> "uninitialized",
        type |-> "uninitializedTableElement"],
       [match |-> "prefix", text |-> "invalid argument", type |-> "invalidArgument"],
       [match |-> "exact",  text |-> "element segment dropped",
        type |-> "invalidArgument"],
       [match |-> "exact",  text |-> "data segment dropped", type |-> "invalidArgument"] >>

RowMatches(row, s) ==
    IF row.match = "exact" THEN s = row.text
    ELSE Len(s) >= Len(row.text) /\ SubSeq(s, 1, Len(row.text)) = row.text

\* The type of the first row of the table that matches s, NoExpectedTrapType
\* when no row does.
FirstMatch(s) ==
    LET rows == {i \in 1..Len(TrapTable) : RowMatches(TrapTable[i], s)}
    IN IF rows = {} THEN NoExpectedTrapType ELSE TrapTable[Min(rows)].type

\* C4: the classifier returns, for every expected-error string, the type of
\* the first row of the table whose exact match or prefix match holds, and
\* for a string that matches no row it records "unrecognized trap type" and
\* makes no AssertTrapCommand.
C4_FirstMatchWins ==
    /\ trap.pc = "break" =>
          /\ FirstMatch(trap.expectedErrorMessage) # NoExpectedTrapType
          /\ trap.result.type = "assert_trap"
          /\ trap.result.expectedType = FirstMatch(trap.expectedErrorMessage)
    /\ trap.pc = "thrown" /\ trap.stringLiteral =>
          /\ FirstMatch(trap.expectedErrorMessage) = NoExpectedTrapType
          /\ trap.result = NullCommand
          /\ trapParseState.unresolvedErrors = <<"unrecognized trap type">>

\* C4 for the strings that hold no byte 0: there the classifier is the table.
C4_FirstMatchWinsWithoutNUL ==
    c_str(trap.expectedErrorMessage) = trap.expectedErrorMessage => C4_FirstMatchWins

\* A string that extends "out of bounds memory access" by a byte 0 and more
\* characters has been classified.
C4_Divergence ==
    /\ trap.pc = "break"
    /\ trap.expectedErrorMessage = "out of bounds memory access" \o NUL \o "x"
    /\ trap.result.expectedType = "outOfBoundsMemoryAccess"
    /\ FirstMatch(trap.expectedErrorMessage) = "outOfBounds"

(***************************************************************************)
(* The test-script parser: parseTestCommands, parseCommand and the         *)
(* commands (module ...), assert_invalid and assert_malformed.             *)
(*                                                                         *)
(* The scripts are those made of the tokens of TokenTypes; lex has made    *)
(* all the tokens before parsing starts, the model draws each one when the *)
(* parser first looks at it. t_fields stands for the fields of an inline   *)
(* module.                                                                 *)
(***************************************************************************)
TokenTypes ==
    { "t_leftParenthesis", "t_rightParenthesis", "t_assert_invalid", "t_assert_malformed",
      "t_module", "t_quote", "t_binary", "t_string", "t_fields", "t_eof" }

\* The values of the string literals of a script.
StringLiterals == {"a"}

Token(type) == [type |-> type, string |-> ""]
Tokens ==
    {Token(type) : type \in TokenTypes \ {"t_string"}}
        \cup {[type |-> "t_string", string |-> s] : s \in StringLiterals}

\* The messages parseModule and parseModuleBody give for a module.
ModuleErrors == {"validation error: type mismatch", "unexpected token"}
ErrorSeqs == UNION {[1..n -> ModuleErrors] : n \in 0..MaxErrors}

\* The token lex made after those the parser has looked at: t_eof ends the
\* script, and a script has at most MaxTokens tokens before it.
Lexed(c) == IF c.numTokens >= MaxTokens THEN {Token("t_eof")} ELSE Tokens

\* cursor->nextToken[0] and cursor->nextToken[0..1]: the cursor with the tokens
\* looked at.
Lex1(c) ==
    IF Len(c.nextToken) >= 1 THEN {c}
    ELSE {[c EXCEPT !.nextToken = <<t>>, !.numTokens = @ + 1] : t \in Lexed(c)}
Lex2(c) ==
    UNION { IF Len(d.nextToken) >= 2 THEN {d}
            ELSE {[d EXCEPT !.nextToken = Append(@, t), !.numTokens = @ + 1] :
                     t \in Lexed(d)} : d \in Lex1(c) }

\* ++cursor->nextToken
Advance(c) == [c EXCEPT !.nextToken = Tail(@)]

\* ParseState(string, lineInfo)
NewParseState == [alive |-> TRUE, unresolvedErrors |-> <<>>]
\* A ParseState whose lifetime has ended, or has not begun.
NoParseState == [alive |-> FALSE, unresolvedErrors |-> <<>>]

\* The locals of parseCommand and of the functions it calls.
NoLocals ==
    [commandType |-> "none", quoteToken |-> "none", quotedModuleType |-> "none",
     quotedModuleString |-> "", result |-> NullCommand, depth |-> 0]
\* The parser between two commands of parseTestCommands' loop.
BetweenCommands ==
    [pc |-> "commands", frames |-> <<"parseTestCommands">>, exception |-> "none"]
        @@ NoLocals

\* What the parser knows of the top-level form it is in or has just left;
\* kept for the properties only.
NoForm ==
    [keyword |-> "none", quotedModuleType |-> "none", quotedModuleString |-> "",
     moduleParsed |-> FALSE, innerReturned |-> FALSE, stringLiteral |-> FALSE,
     closed |-> FALSE, loadError |-> "none"]

Top(frames) == frames[Len(frames)]
Pop(frames) == SubSeq(frames, 1, Len(frames) - 1)
InTry == \E i \in 1..Len(parser.frames) : parser.frames[i] = "try"

\* parseErrorf(cursor->parseState, ...): one more unresolved error in the
\* ParseState the cursor points to. inner tells that the error is recorded
\* inside the try block of assert_invalid / assert_malformed.
parseErrors(c, messages) ==
    LET errors == [i \in 1..Len(messages) |-> [message |-> messages[i], inner |-> InTry]]
    IN IF c.parseState = "parseState"
       THEN /\ parseState' = [parseState EXCEPT !.unresolvedErrors = @ \o errors]
            /\ UNCHANGED malformedModuleParseState
       ELSE /\ malformedModuleParseState' =
                   [malformedModuleParseState EXCEPT !.unresolvedErrors = @ \o errors]
            /\ UNCHANGED parseState
parseErrorf(c, message) == parseErrors(c, <<message>>)
noError == UNCHANGED <<parseState, malformedModuleParseState>>

\* throw: the parser goes on in the innermost handler.
Throw(exception) ==
    parser' = [parser EXCEPT !.pc = "unwind", !.exception = exception]


ParenthesizedFrames == {"command", "action", "inner"}
AssertKeywords == {"t_assert_invalid", "t_assert_malformed"}

\* cursor->parseState = &malformedModuleParseState
EnterScopeNoSwap(c) == c
EnterScope(c) == [c EXCEPT !.parseState = "malformedModuleParseState"]

\* The loop over malformedModuleParseState.unresolvedErrors, without its break.
RECURSIVE InvalidOrMalformedNoBreak(_, _)
InvalidOrMalformedNoBreak(errors, invalidOrMalformed) ==
    IF errors = <<>> THEN invalidOrMalformed
    ELSE IF stringStartsWith(Head(errors).message, "validation error")
         THEN InvalidOrMalformedNoBreak(Tail(errors), "invalid")
         ELSE InvalidOrMalformedNoBreak(Tail(errors), "malformed")

\* The loop over malformedModuleParseState.unresolvedErrors; it is entered
\* with invalidOrMalformed = wellFormedAndValid.
RECURSIVE InvalidOrMalformed(_, _)
InvalidOrMalformed(errors, invalidOrMalformed) ==
    IF errors = <<>> THEN invalidOrMalformed
    ELSE IF stringStartsWith(Head(errors).message, "validation error")
         THEN InvalidOrMalformed(Tail(errors), "invalid")
         ELSE "malformed"

\* new AssertInvalidOrMalformedCommand(...), the command type left out.
AssertInvalidOrMalformedCommandOfOneType(commandType, invalidOrMalformed, quotedModuleType, quotedModuleString) ==
    [type |-> "assert_invalid", invalidOrMalformed |-> invalidOrMalformed,
     quotedModuleType |-> quotedModuleType, quotedModuleString |-> quotedModuleString]

\* new AssertInvalidOrMalformedCommand(commandType, locus, invalidOrMalformed,
\* quotedModuleType, quotedModuleString)
AssertInvalidOrMalformedCommand(commandType, invalidOrMalformed, quotedModuleType, quotedModuleString) ==
    [type |-> commandType, invalidOrMalformed |-> invalidOrMalformed,
     quotedModuleType |-> quotedModuleType, quotedModuleString |-> quotedModuleString]

\* parseCommand, called for a '(' by the loop of parseTestCommands, up to the
\* switch of its parseParenthesized or, for (module, up to parseTestScriptModule
\* in parseAction.
parseCommand ==
    /\ parser.pc = "commands"
    /\ \E c \in Lex1(cursor) :
          /\ c.nextToken[1].type = "t_leftParenthesis"
          /\ \E d \in Lex2(c) :
                /\ form' = [NoForm EXCEPT !.keyword = d.nextToken[2].type]
                /\ IF d.nextToken[2].type = "t_module"
                   THEN /\ cursor' = Advance(Advance(d))
                        /\ parser' = [parser EXCEPT !.pc = "parseTestScriptModule",
                                                    !.frames = Append(@, "action")]
                   ELSE /\ cursor' = Advance(d)
                        /\ parser' = [parser EXCEPT !.pc = "switch",
                                                    !.frames = Append(@, "command")]
    /\ UNCHANGED <<parseState, malformedModuleParseState, outTestCommands, outErrors>>

\* require(&cursor, t_eof) after the loop of parseTestCommands.
requireEof ==
    /\ parser.pc = "commands"
    /\ \E c \in Lex1(cursor) :
          /\ c.nextToken[1].type # "t_leftParenthesis"
          /\ cursor' = c
          /\ IF c.nextToken[1].type = "t_eof"
             THEN /\ parser' = [parser EXCEPT !.pc = "resolve", !.frames = <<>>]
                  /\ noError
             ELSE /\ Throw("RecoverParseException")
                  /\ parseErrorf(c, "expected eof")
    /\ UNCHANGED <<outTestCommands, outErrors, form>>

\* case t_assert_invalid: case t_assert_malformed: up to the assignment of
\* cursor->parseState in the try block.
assertInvalidOrMalformed ==
    /\ parser.pc = "switch"
    /\ cursor.nextToken[1].type \in AssertKeywords
    /\ parser' = [parser EXCEPT !.pc = "parseParenthesized",
                                !.frames = Append(@, "try"),
                                !.commandType = cursor.nextToken[1].type]
    /\ malformedModuleParseState' = NewParseState
    /\ cursor' = EnterScope(Advance(cursor))
    /\ UNCHANGED <<parseState, outTestCommands, outErrors, form>>

\* default: parseErrorf(..., "unknown script command"); throw
\* RecoverParseException();
unknownCommand ==
    /\ parser.pc = "switch"
    /\ cursor.nextToken[1].type \notin AssertKeywords
    /\ parseErrorf(cursor, "unknown script command")
    /\ Throw("RecoverParseException")
    /\ UNCHANGED <<cursor, outTestCommands, outErrors, form>>

\* parseParenthesized returns to its caller: to the try block of assert_invalid
\* / assert_malformed, which ends with cursor->parseState = outerParseState;
\* to parseCommand through parseAction, which makes an ActionCommand of an
\* action; or to parseCommand, which returns result to the loop of
\* parseTestCommands. c is the cursor as parseParenthesized leaves it.
parenthesizedReturns(c) ==
    LET frame == Top(parser.frames)
    IN  /\ IF frame = "inner"
           THEN /\ cursor' = [c EXCEPT !.parseState = "parseState"]
                /\ parser' = [parser EXCEPT !.pc = "tryParseString",
                                            !.frames = Pop(Pop(@)), !.depth = 0]
                /\ form' = [form EXCEPT !.innerReturned = TRUE]
                /\ UNCHANGED outTestCommands
           ELSE /\ cursor' = c
                /\ parser' = BetweenCommands
                /\ form' = [form EXCEPT !.closed = TRUE]
                /\ outTestCommands' = Append(outTestCommands, parser.result)
        /\ UNCHANGED <<parseState, malformedModuleParseState, outErrors>>

\* parseParenthesized(cursor, ...) in the try block: require(cursor,
\* t_leftParenthesis), before the try block of parseParenthesized.
parseParenthesized ==
    /\ parser.pc = "parseParenthesized"
    /\ \E c \in Lex1(cursor) :
          IF c.nextToken[1].type = "t_leftParenthesis"
          THEN /\ cursor' = Advance(c)
               /\ parser' = [parser EXCEPT !.pc = "requireModule",
                                           !.frames = Append(@, "inner")]
               /\ noError
          ELSE /\ cursor' = c
               /\ Throw("RecoverParseException")
               /\ parseErrorf(c, "expected '('")
    /\ UNCHANGED <<outTestCommands, outErrors, form>>

\* require(cursor, t_module)
requireModule ==
    /\ parser.pc = "requireModule"
    /\ \E c \in Lex1(cursor) :
          IF c.nextToken[1].type = "t_module"
          THEN /\ cursor' = Advance(c)
               /\ parser' = [parser EXCEPT !.pc = "parseTestScriptModule"]
               /\ noError
          ELSE /\ cursor' = c
               /\ Throw("RecoverParseException")
               /\ parseErrorf(c, "expected 'module'")
    /\ UNCHANGED <<outTestCommands, outErrors, form>>

\* parseTestScriptModule: which of its branches is taken. The scripts have no
\* name after module.
parseTestScriptModule ==
    /\ parser.pc = "parseTestScriptModule"
    /\ \E c \in Lex1(cursor) :
          /\ IF c.nextToken[1].type \in {"t_quote", "t_binary"}
             THEN /\ cursor' = Advance(c)
                  /\ parser' = [parser EXCEPT !.pc = "tryParseQuotedString",
                                              !.quoteToken = c.nextToken[1].type]
             ELSE /\ cursor' = c
                  /\ parser' = [parser EXCEPT !.pc = "parseModuleBody"]
          /\ form' = [form EXCEPT !.quotedModuleType =
                          IF c.nextToken[1].type = "t_binary" THEN "binary" ELSE "text"]
    /\ UNCHANGED <<parseState, malformedModuleParseState, outTestCommands, outErrors>>

\* if(!tryParseString(cursor, outQuotedModuleString)) { parseErrorf(...,
\* "expected string"); } else { while(tryParseString(...)) {}; }: one
\* evaluation of tryParseString, first tells whether it is the one of the if.
tryParseQuotedString ==
    /\ parser.pc \in {"tryParseQuotedString", "whileTryParseQuotedString"}
    /\ \E c \in Lex1(cursor) :
          IF c.nextToken[1].type = "t_string"
          THEN /\ cursor' = Advance(c)
               /\ parser' = [parser EXCEPT !.pc = "whileTryParseQuotedString",
                                 !.quotedModuleString = @ \o c.nextToken[1].string]
               /\ form' = [form EXCEPT !.quotedModuleString = @ \o c.nextToken[1].string]
               /\ UNCHANGED <<parseState, malformedModuleParseState>>
          ELSE /\ cursor' = c
               /\ parser' = [parser EXCEPT !.pc = "quotedModule"]
               /\ IF parser.pc = "tryParseQuotedString"
                  THEN parseErrorf(c, "expected string")
                  ELSE noError
               /\ UNCHANGED form
    /\ UNCHANGED <<outTestCommands, outErrors>>

\* parseTestScriptModule returns into the lambda of parseAction, which makes
\* the ModuleAction, or into the lambda of the try block.
ModuleParsed(p, quotedModuleType, quotedModuleString) ==
    [p EXCEPT !.pc = "requireRightParenthesis",
              !.quotedModuleType = quotedModuleType,
              !.quotedModuleString = quotedModuleString,
              !.result = IF Top(p.frames) = "action" THEN [type |-> "action"] ELSE @]

\* The quote branch: parseModule gives quotedErrors, each is pushed to
\* cursor->parseState->unresolvedErrors.
quotedTextModule ==
    /\ parser.pc = "quotedModule"
    /\ parser.quoteToken = "t_quote"
    /\ parser' = ModuleParsed(parser, "text", parser.quotedModuleString)
    /\ \E quotedErrors \in ErrorSeqs : parseErrors(cursor, quotedErrors)
    /\ form' = [form EXCEPT !.moduleParsed = TRUE]
    /\ UNCHANGED <<cursor, outTestCommands, outErrors>>

\* WASM::loadBinaryModule: the module loads, or loadError says why not. No
\* bytes at all are not a module: they have no header to decode.
LoadResults == {"loaded", "malformed", "invalid"}
LoadResultsOf(data) == IF data = "" THEN {"malformed"} ELSE LoadResults

\* loadError.message alone, without what parseTestScriptModule puts before it.
loadErrorMessageAlone(loadError) ==
    IF loadError = "malformed" THEN "bad magic" ELSE "type mismatch"

\* The message parseTestScriptModule records for a loadError.
loadErrorMessage(loadError) ==
    IF loadError = "malformed" THEN "error deserializing binary module: bad magic"
    ELSE "validation error: type mismatch"

\* The binary branch.
quotedBinaryModule ==
    /\ parser.pc = "quotedModule"
    /\ parser.quoteToken = "t_binary"
    /\ parser' = ModuleParsed(parser, "binary", parser.quotedModuleString)
    /\ \E loadError \in LoadResultsOf(parser.quotedModuleString) :
          /\ IF loadError \in {"malformed", "invalid"}
             THEN parseErrorf(cursor, loadErrorMessage(loadError))
             ELSE noError
          /\ form' = [form EXCEPT !.moduleParsed = TRUE, !.loadError = loadError]
    /\ UNCHANGED <<cursor, outTestCommands, outErrors>>

\* The branch of an inline module: parseModuleBody takes the fields, records
\* its errors, and returns or, after an error, throws; outQuotedModuleString
\* is the text of the tokens it has taken.
parseModuleBody ==
    /\ parser.pc = "parseModuleBody"
    /\ \E c \in Lex1(cursor) :
          LET fields == c.nextToken[1].type = "t_fields"
              text == IF fields THEN "fields" ELSE ""
          IN /\ cursor' = IF fields THEN Advance(c) ELSE c
             /\ \E errors \in ErrorSeqs :
                   /\ parseErrors(c, errors)
                   /\ \/ /\ parser' = ModuleParsed(parser, "text", text)
                         /\ form' = [form EXCEPT !.quotedModuleString = text,
                                                  !.moduleParsed = TRUE]
                      \/ /\ errors # <<>>
                         /\ \E exception \in {"RecoverParseException",
                                                "FatalParseException"} : Throw(exception)
                         /\ UNCHANGED form
    /\ UNCHANGED <<outTestCommands, outErrors>>

\* require(cursor, t_rightParenthesis) at the end of the try block of
\* parseParenthesized.
requireRightParenthesis ==
    /\ parser.pc = "requireRightParenthesis"
    /\ \E c \in Lex1(cursor) :
          IF c.nextToken[1].type = "t_rightParenthesis"
          THEN parenthesizedReturns(Advance(c))
          ELSE /\ cursor' = c
               /\ Throw("RecoverParseException")
               /\ parseErrorf(c, "expected ')'")
               /\ UNCHANGED <<outTestCommands, outErrors, form>>

\* if(!tryParseString(cursor, expectedErrorMessage)) after the try block.
tryParseString ==
    /\ parser.pc = "tryParseString"
    /\ \E c \in Lex1(cursor) :
          IF c.nextToken[1].type = "t_string"
          THEN /\ cursor' = Advance(c)
               /\ parser' = [parser EXCEPT !.pc = "classify"]
               /\ form' = [form EXCEPT !.stringLiteral = TRUE]
               /\ noError
          ELSE /\ cursor' = c
               /\ Throw("RecoverParseException")
               /\ parseErrorf(c, "expected string literal")
               /\ UNCHANGED form
    /\ UNCHANGED <<outTestCommands, outErrors>>

\* The classification and new AssertInvalidOrMalformedCommand.
classify ==
    /\ parser.pc = "classify"
    /\ parser' = [parser EXCEPT !.pc = "break", !.result =
          AssertInvalidOrMalformedCommand(
              parser.commandType,
              InvalidOrMalformed(malformedModuleParseState.unresolvedErrors,
                                 "wellFormedAndValid"),
              parser.quotedModuleType, parser.quotedModuleString)]
    /\ UNCHANGED <<cursor, parseState, malformedModuleParseState, outTestCommands,
                   outErrors, form>>

\* break: the case ends and with it the lifetime of malformedModuleParseState.
break ==
    /\ parser.pc = "break"
    /\ parser' = [parser EXCEPT !.pc = "requireRightParenthesis"]
    /\ malformedModuleParseState' = NoParseState
    /\ UNCHANGED <<cursor, parseState, outTestCommands, outErrors, form>>

\* catch(RecoverParseException const&) of parseParenthesized. The exception
\* has left the lambda: of a command, with the lifetime of its locals ended.
parenthesizedCatch ==
    /\ parser.pc = "unwind"
    /\ parser.exception = "RecoverParseException"
    /\ Top(parser.frames) \in ParenthesizedFrames
    /\ parser' = [parser EXCEPT !.pc = "findClosingParenthesis", !.exception = "none",
                                !.depth = 1]
    /\ malformedModuleParseState' =
          IF Top(parser.frames) = "command" THEN NoParseState ELSE malformedModuleParseState
    /\ UNCHANGED <<cursor, parseState, outTestCommands, outErrors, form>>

\* A FatalParseException goes through parseParenthesized.
parenthesizedUnwind ==
    /\ parser.pc = "unwind"
    /\ parser.exception = "FatalParseException"
    /\ Top(parser.frames) \in ParenthesizedFrames
    /\ parser' = [parser EXCEPT !.frames = Pop(@)]
    /\ malformedModuleParseState' =
          IF Top(parser.frames) = "command" THEN NoParseState ELSE malformedModuleParseState
    /\ UNCHANGED <<cursor, parseState, outTestCommands, outErrors, form>>

\* catch(RecoverParseException const&) { cursor->parseState = outerParseState;
\* throw RecoverParseException(); }
assertCatch ==
    /\ parser.pc = "unwind"
    /\ parser.exception = "RecoverParseException"
    /\ Top(parser.frames) = "try"
    /\ cursor' = [cursor EXCEPT !.parseState = "parseState"]
    /\ parser' = [parser EXCEPT !.frames = Pop(@)]
    /\ UNCHANGED <<parseState, malformedModuleParseState, outTestCommands, outErrors, form>>

\* A FatalParseException goes through the try block, which has no handler
\* for it.
assertUnwind ==
    /\ parser.pc = "unwind"
    /\ parser.exception = "FatalParseException"
    /\ Top(parser.frames) = "try"
    /\ parser' = [parser EXCEPT !.frames = Pop(@)]
    /\ UNCHANGED <<cursor, parseState, malformedModuleParseState, outTestCommands,
                   outErrors, form>>

\* findClosingParenthesis, one token of its loop: it returns after the ')'
\* that closes the parenthesis, at t_eof it records an error and throws
\* FatalParseException out of parseParenthesized.
findClosingParenthesis ==
    /\ parser.pc = "findClosingParenthesis"
    /\ \E c \in Lex1(cursor) :
          LET type == c.nextToken[1].type
          IN CASE type = "t_eof" ->
                    /\ cursor' = c
                    /\ parser' = [parser EXCEPT !.pc = "unwind", !.frames = Pop(@),
                                                !.exception = "FatalParseException"]
                    /\ parseErrorf(c, "unexpected end of file")
                    /\ UNCHANGED <<outTestCommands, outErrors, form>>
               [] type = "t_rightParenthesis" /\ parser.depth = 1 ->
                    parenthesizedReturns(Advance(c))
               [] OTHER ->
                    /\ cursor' = Advance(c)
                    /\ parser' = [parser EXCEPT !.depth =
                                     CASE type = "t_leftParenthesis" -> @ + 1
                                       [] type = "t_rightParenthesis" -> @ - 1
                                       [] OTHER -> @]
                    /\ UNCHANGED <<parseState, malformedModuleParseState, outTestCommands,
                                   outErrors, form>>

\* catch(RecoverParseException const&) {} catch(FatalParseException const&) {}
parseTestCommandsCatch ==
    /\ parser.pc = "unwind"
    /\ Top(parser.frames) = "parseTestCommands"
    /\ parser' = [parser EXCEPT !.pc = "resolve", !.frames = <<>>]
    /\ UNCHANGED <<cursor, parseState, malformedModuleParseState, outTestCommands,
                   outErrors, form>>

\* parseTestCommands without the loop that writes the errors to outErrors.
returnWithoutErrors ==
    /\ parser.pc = "resolve"
    /\ parser' = [parser EXCEPT !.pc = "returned"]
    /\ UNCHANGED <<cursor, parseState, malformedModuleParseState, outTestCommands,
                   outErrors, form>>

\* The errors of parseState are written to outErrors and parseTestCommands
\* returns.
resolve ==
    /\ parser.pc = "resolve"
    /\ outErrors' = parseState.unresolvedErrors
    /\ parser' = [parser EXCEPT !.pc = "returned"]
    /\ UNCHANGED <<cursor, parseState, malformedModuleParseState, outTestCommands, form>>

NextParse ==
  /\ UNCHANGED <<compVars, hostVars, quotaVars, trapVars, emitVars>>
  /\ \/ parseCommand
     \/ requireEof
     \/ assertInvalidOrMalformed
     \/ unknownCommand
     \/ parseParenthesized
     \/ requireModule
     \/ parseTestScriptModule
     \/ tryParseQuotedString
     \/ quotedTextModule
     \/ quotedBinaryModule
     \/ parseModuleBody
     \/ requireRightParenthesis
     \/ tryParseString
     \/ classify
     \/ break
     \/ parenthesizedCatch
     \/ parenthesizedUnwind
     \/ assertCatch
     \/ assertUnwind
     \/ findClosingParenthesis
     \/ parseTestCommandsCatch
     \/ resolve

SpecParse == Init /\ [][NextParse]_vars

(***************************************************************************)
(* Properties of assert_invalid / assert_malformed.                        *)
(***************************************************************************)
\* s starts with the characters of prefix.
StartsWith(s, prefix) == Len(s) >= Len(prefix) /\ SubSeq(s, 1, Len(prefix)) = prefix

\* The classification of a list of errors E as the specification gives it.
Classification(E) ==
    IF \E i \in 1..Len(E) : ~StartsWith(E[i].message, "validation error") THEN "malformed"
    ELSE IF E # <<>> THEN "invalid"
    ELSE "wellFormedAndValid"

\* C5: with E the errors recorded while the inner module was parsed, the
\* command is classified malformed if a message at any position of E does not
\* start with "validation error", invalid if E is not empty and every message
\* starts with it, wellFormedAndValid if E is empty.
C5_Classification ==
    parser.pc = "break" =>
        parser.result.invalidOrMalformed
            = Classification(malformedModuleParseState.unresolvedErrors)

\* A module whose first error is a validation error and whose second is not
\* has been classified.
C5_Witness ==
    /\ parser.pc = "break"
    /\ Len(malformedModuleParseState.unresolvedErrors) = 2
    /\ malformedModuleParseState.unresolvedErrors[1].message
          = "validation error: type mismatch"
    /\ malformedModuleParseState.unresolvedErrors[2].message = "unexpected token"
    /\ parser.result.invalidOrMalformed = "malformed"

\* C6: on every exit path from the parse of the inner module the cursor's
\* parse state is the outer ParseState again: the cursor never points at the
\* scoped ParseState once that has ceased to exist.
C6_ParseStateRestored ==
    ~malformedModuleParseState.alive => cursor.parseState = "parseState"

\* C6 for the exit paths other than a FatalParseException: there the cursor
\* points at the outer ParseState again.
C6_ParseStateRestoredUnlessFatal ==
    parser.exception # "FatalParseException" => C6_ParseStateRestored

\* parseTestCommands has returned after a FatalParseException went through
\* the try block, and the cursor still points at the scoped ParseState.
C6_Divergence ==
    /\ parser.pc = "returned"
    /\ parser.exception = "FatalParseException"
    /\ ~malformedModuleParseState.alive
    /\ cursor.parseState = "malformedModuleParseState"

\* C7: no error recorded while the inner module of assert_invalid /
\* assert_malformed is parsed is in the unresolved errors of the outer
\* ParseState, nor in outErrors.
C7_InnerErrorsStayScoped ==
    /\ \A i \in 1..Len(parseState.unresolvedErrors) : ~parseState.unresolvedErrors[i].inner
    /\ \A i \in 1..Len(outErrors) : ~outErrors[i].inner

\* parseTestCommands has returned a command classified malformed, and no
\* error.
C7_Witness ==
    /\ parser.pc = "returned"
    /\ outErrors = <<>>
    /\ \E i \in 1..Len(outTestCommands) :
          /\ outTestCommands[i].type \in AssertKeywords
          /\ outTestCommands[i].invalidOrMalformed = "malformed"

\* The last command of outTestCommands is the one of the form: its type is
\* the keyword, it carries the kind and the text of the quoted module.
CommandOfForm ==
    /\ outTestCommands # <<>>
    /\ LET command == outTestCommands[Len(outTestCommands)]
       IN /\ command.type = form.keyword
          /\ command.quotedModuleType = form.quotedModuleType
          /\ command.quotedModuleString = form.quotedModuleString

\* The parser has left the form it was in.
FormLeft == parser.pc \in {"commands", "resolve", "returned"}

BinaryClassified ==
    parser.pc = "break" /\ form.keyword \in AssertKeywords /\ form.quotedModuleType = "binary"
ClassifiedByLoader ==
    /\ form.loadError \in LoadResults
    /\ form.loadError = "malformed" => parser.result.invalidOrMalformed = "malformed"
    /\ form.loadError = "invalid" => parser.result.invalidOrMalformed = "invalid"
    /\ (form.loadError = "loaded" /\ form.quotedModuleString # "") =>
          parser.result.invalidOrMalformed = "wellFormedAndValid"
\* The strings of the module were followed by the ')' of the (module ...) form.
ModuleFormClosed ==
    \A i \in DOMAIN malformedModuleParseState.unresolvedErrors :
        malformedModuleParseState.unresolvedErrors[i].message # "expected ')'"

\* C23 as stated: for a (module binary ...) form inside assert_invalid or
\* assert_malformed, the classification of the command follows the result of
\* the binary loader: a LoadError of type malformed gives malformed, one of
\* type invalid gives invalid, and a module that loads, with at least one
\* string given, gives wellFormedAndValid.
C23_BinaryClassifiedByLoader == BinaryClassified => ClassifiedByLoader

\* C23, amended: the classification follows the result of the binary loader
\* when the strings of the module are followed by the closing parenthesis of
\* the (module ...) form; when they are not, the error "expected ')'" is
\* recorded with the loader's and the command is classified malformed,
\* whatever the loader found.
C23_BinaryClassifiedByLoaderWhenClosed ==
    BinaryClassified =>
        /\ ModuleFormClosed => ClassifiedByLoader
        /\ ~ModuleFormClosed => parser.result.invalidOrMalformed = "malformed"

\* A binary module that the loader found invalid has been classified invalid
\* in an assert_malformed form.
C23_Witness ==
    /\ parser.pc = "break"
    /\ form.keyword = "t_assert_malformed"
    /\ form.quotedModuleType = "binary"
    /\ form.quotedModuleString = "a"
    /\ form.loadError = "invalid"
    /\ ModuleFormClosed
    /\ parser.result.invalidOrMalformed = "invalid"

\* A binary module that loads, followed by a token that is not ')', has been
\* classified malformed.
C23_WitnessNotClosed ==
    /\ BinaryClassified
    /\ form.loadError = "loaded"
    /\ form.quotedModuleString = "a"
    /\ ~ModuleFormClosed
    /\ parser.result.invalidOrMalformed = "malformed"

\* A binary module that loads has been classified wellFormedAndValid.
C23_WitnessLoaded ==
    /\ parser.pc = "break"
    /\ form.keyword = "t_assert_invalid"
    /\ form.quotedModuleType = "binary"
    /\ form.loadError = "loaded"
    /\ parser.result.invalidOrMalformed = "wellFormedAndValid"

(***************************************************************************)
(* Properties of parseTestCommands.                                        *)
(***************************************************************************)
\* The parser is inside a command of the loop of parseTestCommands.
InCommand == Len(parser.frames) > 1

\* C14: a RecoverParseException raised inside a command does not reach the
\* handlers of parseTestCommands: the parenthesis of the command is skipped to
\* its end and the loop goes on with the next command, unless the script ends
\* first. After a FatalParseException no further command is produced. In every
\* case parseTestCommands goes on until it returns, and it returns with the
\* errors of its ParseState written to outErrors.
C14_RecoverAndFatal ==
    /\ [](parser.pc # "returned" => ENABLED NextParse)
    /\ [](parser.pc = "returned" => outErrors = parseState.unresolvedErrors)
    /\ [][/\ (/\ parser'.pc = "unwind"
               /\ parser'.exception = "RecoverParseException"
               /\ ~InCommand') => ~InCommand
          /\ (parser.pc = "findClosingParenthesis" /\ parser.frames = <<"parseTestCommands", "command">>
                 /\ parser'.pc # "findClosingParenthesis")
                => \/ parser' = BetweenCommands
                   \/ parser'.exception = "FatalParseException"
          /\ parser.exception = "FatalParseException"
                => /\ parser'.exception = "FatalParseException"
                   /\ parser'.pc \in {"unwind", "resolve", "returned"}
                   /\ outTestCommands' = outTestCommands]_vars

\* parseTestCommands has returned two commands and an error: no command for
\* a first, broken form, and the command of the form after it.
C14_Witness ==
    /\ parser.pc = "returned"
    /\ parser.exception = "none"
    /\ outErrors # <<>>
    /\ Len(outTestCommands) = 2
    /\ outTestCommands[1] = NullCommand
    /\ outTestCommands[2].type \in AssertKeywords

\* parseTestCommands has returned after a FatalParseException, with its error.
C14_WitnessFatal ==
    /\ parser.pc = "returned"
    /\ parser.exception = "FatalParseException"
    /\ outErrors # <<>>

(***************************************************************************)
(* The lowering of the memory operators (Lib/LLVMJIT/EmitMem.cpp).         *)
(*                                                                         *)
(* An llvm::Value is a term: a record whose field op names the             *)
(* instruction that computes it. The instructions that have an effect or a *)
(* place in the control flow (loads, stores, atomic operations, calls,     *)
(* conditional traps, phi nodes and branches) are kept, in the order in    *)
(* which irBuilder made them, in the basic block they were inserted in.    *)
(***************************************************************************)
\* The alignment of an instruction on which none was set.
NoAlignment == 0

\* The value on the operand stack at position index, counted from the first
\* operand the Wasm operator takes.
Operand(index) == [op |-> "operand", index |-> index]

\* emitLiteral(llvmContext, value)
emitLiteral(type, value) == [op |-> "literal", type |-> type, value |-> value]

\* irBuilder.CreateZExt, CreateSExt, CreateTrunc, CreateAdd, CreateSub,
\* CreateAnd, CreateICmpNE, CreateICmpULT, CreateBitCast
CreateZExt(value, type) == [op |-> "zext", arg |-> value, type |-> type]
CreateSExt(value, type) == [op |-> "sext", arg |-> value, type |-> type]
CreateTrunc(value, type) == [op |-> "trunc", arg |-> value, type |-> type]
CreateAdd(lhs, rhs) == [op |-> "add", lhs |-> lhs, rhs |-> rhs]
CreateSub(lhs, rhs) == [op |-> "sub", lhs |-> lhs, rhs |-> rhs]
CreateAnd(lhs, rhs) == [op |-> "and", lhs |-> lhs, rhs |-> rhs]
CreateICmpNE(lhs, rhs) == [op |-> "icmp ne", lhs |-> lhs, rhs |-> rhs]
CreateICmpULT(lhs, rhs) == [op |-> "icmp ult", lhs |-> lhs, rhs |-> rhs]
CreateBitCast(value, type) == [op |-> "bitcast", arg |-> value, type |-> type]

\* irBuilder.CreateInBoundsGEP(pointer, index), CreatePointerCast(pointer, type)
CreateInBoundsGEP(pointer, index) == [op |-> "gep", pointer |-> pointer, index |-> index]
CreatePointerCast(pointer, type) == [op |-> "pointercast", arg |-> pointer, type |-> type]

\* irBuilder.CreateLoad(memoryBasePointerVariables[memoryIndex])
LoadMemoryBasePointer(memoryIndex) == [op |-> "memoryBasePointer", memoryIndex |-> memoryIndex]

\* The value an instruction of the block gives: a load, an atomic operation,
\* a call or a phi node, named by its id.
ValueOf(id) == [op |-> "value", id |-> id]

\* irBuilder.CreateExtractElement, CreateInsertElement, llvm::UndefValue::get
CreateExtractElement(vector, lane) == [op |-> "extractelement", vector |-> vector, lane |-> lane]
CreateInsertElement(vector, element, lane) ==
    [op |-> "insertelement", vector |-> vector, element |-> element, lane |-> lane]
UndefValue(type) == [op |-> "undef", type |-> type]
\* irBuilder.CreateExtractValue(aggregate, index)
CreateExtractValue(aggregate, index) ==
    [op |-> "extractvalue", aggregate |-> aggregate, index |-> index]

\* irBuilder.CreateLoad(pointer), CreateStore(value, pointer): the instruction
\* as LLVM makes it, before the setters.
CreateLoad(id, pointer) ==
    [op |-> "load", id |-> id, pointer |-> pointer, alignment |-> NoAlignment,
     volatile |-> FALSE, ordering |-> "NotAtomic"]
CreateStore(value, pointer) ==
    [op |-> "store", value |-> value, pointer |-> pointer, alignment |-> NoAlignment,
     volatile |-> FALSE, ordering |-> "NotAtomic"]
\* irBuilder.CreateAtomicCmpXchg, CreateAtomicRMW: LLVM gives them no alignment.
CreateAtomicCmpXchg(id, pointer, expected, replacement, successOrdering, failureOrdering) ==
    [op |-> "cmpxchg", id |-> id, pointer |-> pointer, expected |-> expected,
     replacement |-> replacement, ordering |-> successOrdering,
     failureOrdering |-> failureOrdering, alignment |-> NoAlignment, volatile |-> FALSE]
CreateAtomicRMW(id, binOp, pointer, value, ordering) ==
    [op |-> "atomicrmw", id |-> id, binOp |-> binOp, pointer |-> pointer, value |-> value,
     ordering |-> ordering, alignment |-> NoAlignment, volatile |-> FALSE]

\* setAlignment, setVolatile, setAtomic
setAlignment(instruction, alignment) == [instruction EXCEPT !.alignment = alignment]
setVolatile(instruction, volatile) == [instruction EXCEPT !.volatile = volatile]
setAtomic(instruction, ordering) == [instruction EXCEPT !.ordering = ordering]

\* emitConditionalTrapIntrinsic(condition, intrinsicName, type, args): the
\* intrinsic is called, and does not return, when the condition holds.
ConditionalTrapIntrinsic(condition, intrinsicName, args) ==
    [op |-> "trapIf", condition |-> condition, intrinsic |-> intrinsicName, args |-> args]
\* emitRuntimeIntrinsic(intrinsicName, type, args)
RuntimeIntrinsic(id, intrinsicName, args) ==
    [op |-> "call", id |-> id, intrinsic |-> intrinsicName, args |-> args]
\* callLLVMIntrinsic(types, intrinsicID, args)
LLVMIntrinsic(id, intrinsicID, args) ==
    [op |-> "callLLVM", id |-> id, intrinsic |-> intrinsicID, args |-> args]
\* irBuilder.CreateCall(llvm::InlineAsm::get(..., text, ...), args)
InlineAsm(text, args) == [op |-> "asm", text |-> text, args |-> args]
\* irBuilder.CreateBr, CreateCondBr, CreatePHI with its addIncoming calls
CreateBr(target) == [op |-> "br", target |-> target]
CreateCondBr(condition, ifTrue, ifFalse) ==
    [op |-> "condbr", condition |-> condition, ifTrue |-> ifTrue, ifFalse |-> ifFalse]
CreatePHI(id, incoming) == [op |-> "phi", id |-> id, incoming |-> incoming]

\* getMemoryIdFromOffset(llvmContext, moduleContext.memoryOffsets[memoryIndex])
getMemoryIdFromOffset(memoryIndex) == [op |-> "memoryId", memoryIndex |-> memoryIndex]

\* The EmitFunctionContext while one operator is lowered: the operand stack,
\* the basic blocks made so far with their instructions, and the block
\* irBuilder inserts into. The operator finds its n operands on the stack.
EmitFunctionContext(n) ==
    [stack |-> [i \in 1..n |-> Operand(i)],
     blocks |-> [b \in {"entry"} |-> <<>>],
     insertBlock |-> "entry"]

\* pop(): the value, and the context after it.
Popped(ctx) == ctx.stack[Len(ctx.stack)]
pop(ctx) == [ctx EXCEPT !.stack = SubSeq(@, 1, Len(@) - 1)]
push(ctx, value) == [ctx EXCEPT !.stack = Append(@, value)]
\* An instruction is inserted at the end of the insert block.
Insert(ctx, instruction) == [ctx EXCEPT !.blocks[ctx.insertBlock] = Append(@, instruction)]
\* llvm::BasicBlock::Create, irBuilder.SetInsertPoint
CreateBlock(ctx, name) == [ctx EXCEPT !.blocks = @ @@ [b \in {name} |-> <<>>]]
SetInsertPoint(ctx, name) == [ctx EXCEPT !.insertBlock = name]

(***************************************************************************)
(* getOffsetAndBoundedAddress, coerceAddressToPointer and                  *)
(* trapIfMisalignedAtomic.                                                 *)
(***************************************************************************)
\* getOffsetAndBoundedAddress with CreateSExt in the place of its first CreateZExt.
getOffsetAndBoundedAddressSExt(address, offset) ==
    IF offset # 0
    THEN CreateAdd(CreateSExt(address, "i64"), CreateZExt(emitLiteral("i32", offset), "i64"))
    ELSE CreateSExt(address, "i64")

\* getOffsetAndBoundedAddress(emitContext, address, offset)
getOffsetAndBoundedAddress(address, offset) ==
    IF offset # 0
    THEN CreateAdd(CreateZExt(address, "i64"), CreateZExt(emitLiteral("i32", offset), "i64"))
    ELSE CreateZExt(address, "i64")

\* EmitFunctionContext::coerceAddressToPointer(boundedAddress, memoryType, memoryIndex)
coerceAddressToPointer(boundedAddress, memoryType, memoryIndex) ==
    CreatePointerCast(CreateInBoundsGEP(LoadMemoryBasePointer(memoryIndex), boundedAddress),
                      memoryType)

\* trapIfMisalignedAtomic with a check of half the alignment.
trapIfMisalignedAtomicOfHalf(ctx, address, alignmentLog2) ==
    IF alignmentLog2 > 1
    THEN Insert(ctx, ConditionalTrapIntrinsic(
                         CreateICmpNE(emitLiteral("i64", 0),
                                      CreateAnd(address,
                                                emitLiteral("i64", 2^(alignmentLog2 - 1) - 1))),
                         "misalignedAtomicTrap", <<address>>))
    ELSE ctx

\* trapIfMisalignedAtomic that emits its check for every alignmentLog2.
trapIfMisalignedAtomicAlways(ctx, address, alignmentLog2) ==
    Insert(ctx, ConditionalTrapIntrinsic(
                    CreateICmpNE(emitLiteral("i64", 0),
                                 CreateAnd(address,
                                           emitLiteral("i64", 2^alignmentLog2 - 1))),
                    "misalignedAtomicTrap", <<address>>))

\* EmitFunctionContext::trapIfMisalignedAtomic(address, alignmentLog2)
trapIfMisalignedAtomic(ctx, address, alignmentLog2) ==
    IF alignmentLog2 > 0
    THEN Insert(ctx, ConditionalTrapIntrinsic(
                         CreateICmpNE(emitLiteral("i64", 0),
                                      CreateAnd(address,
                                                emitLiteral("i64", 2^alignmentLog2 - 1))),
                         "misalignedAtomicTrap", <<address>>))
    ELSE ctx

(***************************************************************************)
(* The immediates, and the operators each macro is instantiated for.       *)
(***************************************************************************)
\* The width in bits of a Wasm address and of a static offset (U32 in the
\* source), and the width of the i64 the address is extended to.
AddressBits == 3
PointerBits == 2 * AddressBits
MaxOffset == 2^AddressBits - 1
\* The memories of the module.
MaxMemoryIndex == 1

\* LoadOrStoreImm<naturalAlignmentLog2> and AtomicLoadOrStoreImm: the
\* alignment hint is at most the natural alignment in a validated module.
LoadOrStoreImm(naturalAlignmentLog2) ==
    [alignmentLog2 : 0..naturalAlignmentLog2, offset : 0..MaxOffset,
     memoryIndex : 0..MaxMemoryIndex]
\* MemoryImm, MemoryCopyImm
MemoryImm == [memoryIndex : 0..MaxMemoryIndex]
MemoryCopyImm == [sourceMemoryIndex : 0..MaxMemoryIndex, destMemoryIndex : 0..MaxMemoryIndex]

\* The targets: the lowering asks for x86, x86_64 and aarch64 by name.
TargetArchs == {"x86_64", "x86", "aarch64", "arm"}

\* sizeof of an LLVM type, in bytes.
SizeOf(type) ==
    CASE type = "i8" -> 1
      [] type = "i16" -> 2
      [] type \in {"i32", "f32"} -> 4
      [] type \in {"i64", "f64", "i8x8", "i16x4", "i32x2"} -> 8
      [] type \in {"i8x16", "i16x8", "i32x4", "i64x2", "f32x4", "f64x2", "v128"} -> 16

Op5(destType, name, llvmMemoryType, naturalAlignmentLog2, conversionOp) ==
    [destType |-> destType, name |-> name, llvmMemoryType |-> llvmMemoryType,
     naturalAlignmentLog2 |-> naturalAlignmentLog2, conversionOp |-> conversionOp]

\* The EMIT_LOAD_OP instances.
LoadOps ==
    { Op5("i32", "i32_load8_s", "i8", 0, "sext"),
      Op5("i32", "i32_load8_u", "i8", 0, "zext"),
      Op5("i32", "i32_load16_s", "i16", 1, "sext"),
      Op5("i32", "i32_load16_u", "i16", 1, "zext"),
      Op5("i64", "i64_load8_s", "i8", 0, "sext"),
      Op5("i64", "i64_load8_u", "i8", 0, "zext"),
      Op5("i64", "i64_load16_s", "i16", 1, "sext"),
      Op5("i64", "i64_load16_u", "i16", 1, "zext"),
      Op5("i64", "i64_load32_s", "i32", 2, "sext"),
      Op5("i64", "i64_load32_u", "i32", 2, "zext"),
      Op5("i32", "i32_load", "i32", 2, "identity"),
      Op5("i64", "i64_load", "i64", 3, "identity"),
      Op5("f32", "f32_load", "f32", 2, "identity"),
      Op5("f64", "f64_load", "f64", 3, "identity"),
      Op5("i64x2", "v128_load", "i64x2", 4, "identity"),
      Op5("i8x16", "v8x16_load_splat", "i8", 0, "splat<16>"),
      Op5("i16x8", "v16x8_load_splat", "i16", 1, "splat<8>"),
      Op5("i32x4", "v32x4_load_splat", "i32", 2, "splat<4>"),
      Op5("i64x2", "v64x2_load_splat", "i64", 3, "splat<2>"),
      Op5("i16x8", "i16x8_load8x8_s", "i8x8", 3, "sext"),
      Op5("i16x8", "i16x8_load8x8_u", "i8x8", 3, "zext"),
      Op5("i32x4", "i32x4_load16x4_s", "i16x4", 3, "sext"),
      Op5("i32x4", "i32x4_load16x4_u", "i16x4", 3, "zext"),
      Op5("i64x2", "i64x2_load32x2_s", "i32x2", 3, "sext"),
      Op5("i64x2", "i64x2_load32x2_u", "i32x2", 3, "zext") }

\* The EMIT_STORE_OP instances; v128_store stores the type of its value.
StoreOps ==
    { Op5("i32", "i32_store8", "i8", 0, "trunc"),
      Op5("i64", "i64_store8", "i8", 0, "trunc"),
      Op5("i32", "i32_store16", "i16", 1, "trunc"),
      Op5("i64", "i64_store16", "i16", 1, "trunc"),
      Op5("i32", "i32_store", "i32", 2, "trunc"),
      Op5("i64", "i64_store32", "i32", 2, "trunc"),
      Op5("i64", "i64_store", "i64", 3, "identity"),
      Op5("f32", "f32_store", "f32", 2, "identity"),
      Op5("f64", "f64_store", "f64", 3, "identity"),
      Op5("v128", "v128_store", "v128", 4, "identity") }

\* The EMIT_ATOMIC_LOAD_OP and EMIT_ATOMIC_STORE_OP instances.
AtomicLoadOps ==
    { Op5("i32", "i32_atomic_load", "i32", 2, "identity"),
      Op5("i64", "i64_atomic_load", "i64", 3, "identity"),
      Op5("i32", "i32_atomic_load8_u", "i8", 0, "zext"),
      Op5("i32", "i32_atomic_load16_u", "i16", 1, "zext"),
      Op5("i64", "i64_atomic_load8_u", "i8", 0, "zext"),
      Op5("i64", "i64_atomic_load16_u", "i16", 1, "zext"),
      Op5("i64", "i64_atomic_load32_u", "i32", 2, "zext") }
AtomicStoreOps ==
    { Op5("i32", "i32_atomic_store", "i32", 2, "identity"),
      Op5("i64", "i64_atomic_store", "i64", 3, "identity"),
      Op5("i32", "i32_atomic_store8", "i8", 0, "trunc"),
      Op5("i32", "i32_atomic_store16", "i16", 1, "trunc"),
      Op5("i64", "i64_atomic_store8", "i8", 0, "trunc"),
      Op5("i64", "i64_atomic_store16", "i16", 1, "trunc"),
      Op5("i64", "i64_atomic_store32", "i32", 2, "trunc") }

Op6(valueTypeId, name, llvmMemoryType, alignmentLog2, memToValue, valueToMem) ==
    [valueTypeId |-> valueTypeId, name |-> name, llvmMemoryType |-> llvmMemoryType,
     alignmentLog2 |-> alignmentLog2, memToValue |-> memToValue, valueToMem |-> valueToMem]

\* The seven shapes EMIT_ATOMIC_CMPXCHG and, for each rmwOpId, EMIT_ATOMIC_RMW
\* are instantiated in: <<valueTypeId, name prefix, name suffix, memory type,
\* alignmentLog2, memToValue, valueToMem>>.
AtomicShapes ==
    { <<"i32", "i32_atomic_rmw8_", "_u", "i8", 0, "zext", "trunc">>,
      <<"i32", "i32_atomic_rmw16_", "_u", "i16", 1, "zext", "trunc">>,
      <<"i32", "i32_atomic_rmw_", "", "i32", 2, "identity", "identity">>,
      <<"i64", "i64_atomic_rmw8_", "_u", "i8", 0, "zext", "trunc">>,
      <<"i64", "i64_atomic_rmw16_", "_u", "i16", 1, "zext", "trunc">>,
      <<"i64", "i64_atomic_rmw32_", "_u", "i32", 2, "zext", "trunc">>,
      <<"i64", "i64_atomic_rmw_", "", "i64", 3, "identity", "identity">> }
AtomicCmpxchgOps ==
    { Op6(s[1], s[2] \o "cmpxchg" \o s[3], s[4], s[5], s[6], s[7]) : s \in AtomicShapes }
\* llvm::AtomicRMWInst::BinOp and the name part of each.
RmwOpIds == {<<"Xchg", "xchg">>, <<"Add", "add">>, <<"Sub", "sub">>, <<"And", "and">>,
             <<"Or", "or">>, <<"Xor", "xor">>}
AtomicRmwOps ==
    { [rmwOpId |-> r[1]] @@ Op6(s[1], s[2] \o r[2] \o s[3], s[4], s[5], s[6], s[7]) :
        s \in AtomicShapes, r \in RmwOpIds }

\* sext, zext, trunc, identity and splat<numLanes> of the lowering, applied to a
\* value and a type.
Conversion(conversionOp, value, type) ==
    IF conversionOp = "identity" THEN value
    ELSE [op |-> conversionOp, arg |-> value, type |-> type]

(***************************************************************************)
(* The load, store and atomic operators.                                   *)
(***************************************************************************)
\* EMIT_LOAD_OP without its setVolatile(true).
EMIT_LOAD_OP_NotVolatile(ctx, o, imm) ==
    LET address == Popped(ctx)
        boundedAddress == getOffsetAndBoundedAddress(address, imm.offset)
        pointer == coerceAddressToPointer(boundedAddress, o.llvmMemoryType, imm.memoryIndex)
        load == setAlignment(CreateLoad("load", pointer), 1)
    IN  push(Insert(pop(ctx), load), Conversion(o.conversionOp, ValueOf("load"), o.destType))

\* EMIT_LOAD_OP(destType, name, llvmMemoryType, naturalAlignmentLog2, conversionOp)
EMIT_LOAD_OP(ctx, o, imm) ==
    LET address == Popped(ctx)
        boundedAddress == getOffsetAndBoundedAddress(address, imm.offset)
        pointer == coerceAddressToPointer(boundedAddress, o.llvmMemoryType, imm.memoryIndex)
        load == setVolatile(setAlignment(CreateLoad("load", pointer), 1), TRUE)
    IN  push(Insert(pop(ctx), load), Conversion(o.conversionOp, ValueOf("load"), o.destType))

\* EMIT_STORE_OP(name, llvmMemoryType, naturalAlignmentLog2, conversionOp)
EMIT_STORE_OP(ctx, o, imm) ==
    LET value == Popped(ctx)
        address == Popped(pop(ctx))
        boundedAddress == getOffsetAndBoundedAddress(address, imm.offset)
        pointer == coerceAddressToPointer(boundedAddress, o.llvmMemoryType, imm.memoryIndex)
        memoryValue == Conversion(o.conversionOp, value, o.llvmMemoryType)
        store == setAlignment(setVolatile(CreateStore(memoryValue, pointer), TRUE), 1)
    IN  Insert(pop(pop(ctx)), store)

\* EMIT_ATOMIC_LOAD_OP with the setAlignment(1) of EMIT_LOAD_OP.
EMIT_ATOMIC_LOAD_OP_Alignment1(ctx, o, imm) ==
    LET address == Popped(ctx)
        boundedAddress == getOffsetAndBoundedAddress(address, imm.offset)
        checked == trapIfMisalignedAtomic(pop(ctx), boundedAddress, o.naturalAlignmentLog2)
        pointer == coerceAddressToPointer(boundedAddress, o.llvmMemoryType, imm.memoryIndex)
        load == setAtomic(setVolatile(setAlignment(CreateLoad("load", pointer), 1), TRUE),
                          "SequentiallyConsistent")
    IN  push(Insert(checked, load), Conversion(o.conversionOp, ValueOf("load"), o.destType))

\* EMIT_ATOMIC_LOAD_OP(valueTypeId, name, llvmMemoryType, naturalAlignmentLog2, memToValue)
EMIT_ATOMIC_LOAD_OP(ctx, o, imm) ==
    LET address == Popped(ctx)
        boundedAddress == getOffsetAndBoundedAddress(address, imm.offset)
        checked == trapIfMisalignedAtomic(pop(ctx), boundedAddress, o.naturalAlignmentLog2)
        pointer == coerceAddressToPointer(boundedAddress, o.llvmMemoryType, imm.memoryIndex)
        load == setAtomic(setVolatile(setAlignment(CreateLoad("load", pointer),
                                                   2^imm.alignmentLog2), TRUE),
                          "SequentiallyConsistent")
    IN  push(Insert(checked, load), Conversion(o.conversionOp, ValueOf("load"), o.destType))

\* EMIT_ATOMIC_STORE_OP(valueTypeId, name, llvmMemoryType, naturalAlignmentLog2, valueToMem)
EMIT_ATOMIC_STORE_OP(ctx, o, imm) ==
    LET value == Popped(ctx)
        address == Popped(pop(ctx))
        boundedAddress == getOffsetAndBoundedAddress(address, imm.offset)
        checked == trapIfMisalignedAtomic(pop(pop(ctx)), boundedAddress,
                                          o.naturalAlignmentLog2)
        pointer == coerceAddressToPointer(boundedAddress, o.llvmMemoryType, imm.memoryIndex)
        memoryValue == Conversion(o.conversionOp, value, o.llvmMemoryType)
        store == setAtomic(setAlignment(setVolatile(CreateStore(memoryValue, pointer), TRUE),
                                        2^imm.alignmentLog2),
                           "SequentiallyConsistent")
    IN  Insert(checked, store)

\* EMIT_ATOMIC_CMPXCHG(valueTypeId, name, llvmMemoryType, alignmentLog2, memToValue, valueToMem)
EMIT_ATOMIC_CMPXCHG(ctx, o, imm) ==
    LET replacementValue == Conversion(o.valueToMem, Popped(ctx), o.llvmMemoryType)
        expectedValue == Conversion(o.valueToMem, Popped(pop(ctx)), o.llvmMemoryType)
        address == Popped(pop(pop(ctx)))
        boundedAddress == getOffsetAndBoundedAddress(address, imm.offset)
        checked == trapIfMisalignedAtomic(pop(pop(pop(ctx))), boundedAddress, o.alignmentLog2)
        pointer == coerceAddressToPointer(boundedAddress, o.llvmMemoryType, imm.memoryIndex)
        atomicCmpXchg == setVolatile(CreateAtomicCmpXchg("atomicCmpXchg", pointer, expectedValue,
                                                         replacementValue,
                                                         "SequentiallyConsistent",
                                                         "SequentiallyConsistent"), TRUE)
        previousValue == CreateExtractValue(ValueOf("atomicCmpXchg"), 0)
    IN  push(Insert(checked, atomicCmpXchg),
             Conversion(o.memToValue, previousValue, o.valueTypeId))

\* EMIT_ATOMIC_RMW(valueTypeId, name, rmwOpId, llvmMemoryType, alignmentLog2, memToValue,
\* valueToMem)
EMIT_ATOMIC_RMW(ctx, o, imm) ==
    LET value == Conversion(o.valueToMem, Popped(ctx), o.llvmMemoryType)
        address == Popped(pop(ctx))
        boundedAddress == getOffsetAndBoundedAddress(address, imm.offset)
        checked == trapIfMisalignedAtomic(pop(pop(ctx)), boundedAddress, o.alignmentLog2)
        pointer == coerceAddressToPointer(boundedAddress, o.llvmMemoryType, imm.memoryIndex)
        atomicRMW == setVolatile(CreateAtomicRMW("atomicRMW", o.rmwOpId, pointer, value,
                                                 "SequentiallyConsistent"), TRUE)
    IN  push(Insert(checked, atomicRMW), Conversion(o.memToValue, ValueOf("atomicRMW"), o.valueTypeId))

\* atomic_notify, i32_atomic_wait and i64_atomic_wait: the name of the
\* operator, the natural alignment of its immediate and the intrinsic.
AtomicWaitOps ==
    { [name |-> "i32_atomic_wait", naturalAlignmentLog2 |-> 2, intrinsic |-> "atomic_wait_i32"],
      [name |-> "i64_atomic_wait", naturalAlignmentLog2 |-> 3, intrinsic |-> "atomic_wait_i64"] }

\* EmitFunctionContext::atomic_notify(AtomicLoadOrStoreImm<2> imm)
atomic_notify(ctx, imm) ==
    LET numWaiters == Popped(ctx)
        address == Popped(pop(ctx))
        boundedAddress == getOffsetAndBoundedAddress(address, imm.offset)
        checked == trapIfMisalignedAtomic(pop(pop(ctx)), boundedAddress, imm.alignmentLog2)
    IN  push(Insert(checked,
                    RuntimeIntrinsic("call", "atomic_notify",
                                     <<address, numWaiters,
                                       getMemoryIdFromOffset(imm.memoryIndex)>>)),
             CreateExtractValue(ValueOf("call"), 0))

\* EmitFunctionContext::i32_atomic_wait, i64_atomic_wait
atomic_wait(ctx, o, imm) ==
    LET timeout == Popped(ctx)
        expectedValue == Popped(pop(ctx))
        address == Popped(pop(pop(ctx)))
        boundedAddress == getOffsetAndBoundedAddress(address, imm.offset)
        checked == trapIfMisalignedAtomic(pop(pop(pop(ctx))), boundedAddress,
                                          imm.alignmentLog2)
    IN  push(Insert(checked,
                    RuntimeIntrinsic("call", o.intrinsic,
                                     <<address, expectedValue, timeout,
                                       getMemoryIdFromOffset(imm.memoryIndex)>>)),
             CreateExtractValue(ValueOf("call"), 0))

\* EmitFunctionContext::memory_init(DataSegmentAndMemImm imm)
memory_init(ctx, imm) ==
    LET numBytes == Popped(ctx)
        sourceOffset == Popped(pop(ctx))
        destAddress == Popped(pop(pop(ctx)))
    IN  Insert(pop(pop(pop(ctx))),
               RuntimeIntrinsic("call", "memory.init",
                                <<destAddress, sourceOffset, numBytes, [op |-> "instanceId"],
                                  getMemoryIdFromOffset(imm.memoryIndex),
                                  emitLiteral("iptr", imm.dataSegmentIndex)>>))

(***************************************************************************)
(* Loops, memory.copy and memory.fill.                                     *)
(***************************************************************************)
\* The name LLVM gives a new basic block: the name asked for, made unique.
BlockName(ctx, name) == IF name \in DOMAIN ctx.blocks THEN name \o "1" ELSE name

\* The lambda emitMemoryCopyLoop gives to emitLoop.
memoryCopyBody(ctx, sourcePointer, destPointer, index) ==
    LET load == setVolatile(setAlignment(
                    CreateLoad("load", CreateInBoundsGEP(sourcePointer, index)), 1), TRUE)
        store == setVolatile(setAlignment(
                     CreateStore(ValueOf("load"), CreateInBoundsGEP(destPointer, index)), 1),
                     TRUE)
    IN  Insert(Insert(ctx, load), store)

\* The lambda of memory_fill with every store at the destination pointer.
memoryFillBodyAtDest(ctx, valueI8, destPointer, index) ==
    Insert(ctx, setVolatile(setAlignment(CreateStore(valueI8, destPointer), 1), TRUE))

\* The lambda memory_fill gives to emitLoop.
memoryFillBody(ctx, valueI8, destPointer, index) ==
    Insert(ctx, setVolatile(setAlignment(
                    CreateStore(valueI8, CreateInBoundsGEP(destPointer, index)), 1), TRUE))

\* The call emitBody(index) of emitLoop: emitBody holds the lambda and the
\* values it captured by reference.
emitBodyCall(emitBody, ctx, index) ==
    IF emitBody.lambda = "memoryCopy"
    THEN memoryCopyBody(ctx, emitBody.sourcePointer, emitBody.destPointer, index)
    ELSE memoryFillBody(ctx, emitBody.valueI8, emitBody.destPointer, index)

\* emitLoop with a forward loop that starts at the index after beginIndex.
emitLoopAfterBegin(ctx, outgoingBlock, beginIndex, endIndex, reverse, emitBody) ==
    LET incomingBlock == ctx.insertBlock
        loopHeadBlock == BlockName(ctx, "loopHead")
        inHead == SetInsertPoint(Insert(CreateBlock(ctx, loopHeadBlock),
                                        CreateBr(loopHeadBlock)),
                                 loopHeadBlock)
        indexPHI == ValueOf(loopHeadBlock)
        loopBodyBlock == BlockName(inHead, "loopBody")
        index == IF reverse THEN CreateSub(indexPHI, emitLiteral("iptr", 1)) ELSE indexPHI
        indexPlusOne == CreateAdd(indexPHI, emitLiteral("iptr", 1))
        phi == IF reverse
               THEN CreatePHI(loopHeadBlock,
                              {<<endIndex, incomingBlock>>, <<index, loopBodyBlock>>})
               ELSE CreatePHI(loopHeadBlock,
                              {<<CreateAdd(beginIndex, emitLiteral("iptr", 1)), incomingBlock>>,
                               <<indexPlusOne, loopBodyBlock>>})
        condition == IF reverse THEN CreateICmpNE(indexPHI, beginIndex)
                     ELSE CreateICmpULT(indexPHI, endIndex)
        headed == Insert(Insert(CreateBlock(inHead, loopBodyBlock), phi),
                         CreateCondBr(condition, loopBodyBlock, outgoingBlock))
        body == emitBodyCall(emitBody, SetInsertPoint(headed, loopBodyBlock), index)
    IN  Insert(body, CreateBr(loopHeadBlock))

\* emitLoop(functionContext, outgoingBlock, beginIndex, endIndex, reverse, emitBody)
emitLoop(ctx, outgoingBlock, beginIndex, endIndex, reverse, emitBody) ==
    LET incomingBlock == ctx.insertBlock
        loopHeadBlock == BlockName(ctx, "loopHead")
        inHead == SetInsertPoint(Insert(CreateBlock(ctx, loopHeadBlock),
                                        CreateBr(loopHeadBlock)),
                                 loopHeadBlock)
        indexPHI == ValueOf(loopHeadBlock)
        loopBodyBlock == BlockName(inHead, "loopBody")
        index == IF reverse THEN CreateSub(indexPHI, emitLiteral("iptr", 1)) ELSE indexPHI
        indexPlusOne == CreateAdd(indexPHI, emitLiteral("iptr", 1))
        phi == IF reverse
               THEN CreatePHI(loopHeadBlock,
                              {<<endIndex, incomingBlock>>, <<index, loopBodyBlock>>})
               ELSE CreatePHI(loopHeadBlock,
                              {<<beginIndex, incomingBlock>>, <<indexPlusOne, loopBodyBlock>>})
        condition == IF reverse THEN CreateICmpNE(indexPHI, beginIndex)
                     ELSE CreateICmpULT(indexPHI, endIndex)
        headed == Insert(Insert(CreateBlock(inHead, loopBodyBlock), phi),
                         CreateCondBr(condition, loopBodyBlock, outgoingBlock))
        body == emitBodyCall(emitBody, SetInsertPoint(headed, loopBodyBlock), index)
    IN  Insert(body, CreateBr(loopHeadBlock))

\* emitMemoryCopyLoop(functionContext, outgoingBlock, sourcePointer, destPointer,
\* numBytesUptr, reverse)
emitMemoryCopyLoop(ctx, outgoingBlock, sourcePointer, destPointer, numBytesUptr, reverse) ==
    LET emitBody == [lambda |-> "memoryCopy", sourcePointer |-> sourcePointer,
                     destPointer |-> destPointer]
    IN  emitLoop(ctx, outgoingBlock, emitLiteral("iptr", 0), numBytesUptr, reverse, emitBody)

\* A condition that sends every copy to the forward block.
neverLessThan(sourceBoundedAddress, destBoundedAddress) ==
    CreateICmpULT(sourceBoundedAddress, sourceBoundedAddress)

\* The condition memory_copy branches to its reverse block on.
sourceAddressIsLessThanDestAddress(sourceBoundedAddress, destBoundedAddress) ==
    CreateICmpULT(sourceBoundedAddress, destBoundedAddress)

\* EmitFunctionContext::memory_copy(MemoryCopyImm imm)
memory_copy(ctx, imm, targetArch) ==
    LET numBytes == Popped(ctx)
        sourceAddress == Popped(pop(ctx))
        destAddress == Popped(pop(pop(ctx)))
        popped == pop(pop(pop(ctx)))
        sourceBoundedAddress == getOffsetAndBoundedAddress(sourceAddress, 0)
        destBoundedAddress == getOffsetAndBoundedAddress(destAddress, 0)
        sourcePointer == coerceAddressToPointer(sourceBoundedAddress, "i8",
                                                imm.sourceMemoryIndex)
        destPointer == coerceAddressToPointer(destBoundedAddress, "i8", imm.destMemoryIndex)
        numBytesUptr == CreateZExt(numBytes, "iptr")
        reverseBlock == "memoryCopyReverse"
        forwardBlock == "memoryCopyForward"
        joinBlock == "memoryCopyJoin"
        branched ==
            Insert(CreateBlock(CreateBlock(CreateBlock(popped, reverseBlock), forwardBlock),
                               joinBlock),
                   CreateCondBr(sourceAddressIsLessThanDestAddress(sourceBoundedAddress,
                                                                   destBoundedAddress),
                                reverseBlock, forwardBlock))
        reversed == emitMemoryCopyLoop(SetInsertPoint(branched, reverseBlock), joinBlock,
                                       sourcePointer, destPointer, numBytesUptr, TRUE)
        inForward == SetInsertPoint(reversed, forwardBlock)
        forward ==
            IF targetArch \in {"x86", "x86_64"}
            THEN Insert(Insert(inForward,
                               InlineAsm("rep movsb",
                                         <<destPointer, sourcePointer, numBytesUptr>>)),
                        CreateBr(joinBlock))
            ELSE emitMemoryCopyLoop(inForward, joinBlock, sourcePointer, destPointer,
                                    numBytesUptr, FALSE)
    IN  SetInsertPoint(forward, joinBlock)

\* EmitFunctionContext::memory_fill(MemoryImm imm)
memory_fill(ctx, imm, targetArch) ==
    LET numBytes == Popped(ctx)
        value == Popped(pop(ctx))
        destAddress == Popped(pop(pop(ctx)))
        popped == pop(pop(pop(ctx)))
        destBoundedAddress == getOffsetAndBoundedAddress(destAddress, 0)
        destPointer == coerceAddressToPointer(destBoundedAddress, "i8", imm.memoryIndex)
        numBytesUptr == CreateZExt(numBytes, "iptr")
        valueI8 == CreateTrunc(value, "i8")
        endBlock == "memoryFillEnd"
        emitBody == [lambda |-> "memoryFill", valueI8 |-> valueI8, destPointer |-> destPointer]
    IN  IF targetArch \in {"x86", "x86_64"}
        THEN Insert(popped, InlineAsm("rep stosb", <<destPointer, valueI8, numBytesUptr>>))
        ELSE SetInsertPoint(emitLoop(CreateBlock(popped, endBlock), endBlock,
                                     emitLiteral("iptr", 0), numBytesUptr, FALSE, emitBody),
                            endBlock)

(***************************************************************************)
(* The interleaved loads and stores.                                       *)
(***************************************************************************)
\* The number of lanes of a vector type.
NumLanes(type) ==
    CASE type = "i8x16" -> 16
      [] type \in {"i16x8", "i8x8"} -> 8
      [] type \in {"i32x4", "f32x4", "i16x4"} -> 4
      [] type \in {"i64x2", "f64x2", "i32x2"} -> 2

\* The EMIT_LOAD_INTERLEAVED_OP and EMIT_STORE_INTERLEAVED_OP instances:
\* one for each vector type and each numVectors.
InterleavedTypes == {<<"v8x16", "i8x16">>, <<"v16x8", "i16x8">>, <<"v32x4", "i32x4">>,
                     <<"v64x2", "i64x2">>}
InterleavedOps(access) ==
    { [name |-> t[1] \o "_" \o access \o "_interleaved_" \o <<"1", "2", "3", "4">>[k],
       llvmValueType |-> t[2], naturalAlignmentLog2 |-> 4, numVectors |-> k,
       numLanes |-> NumLanes(t[2])] : t \in InterleavedTypes, k \in 2..4 }
LoadInterleavedOps == InterleavedOps("load")
StoreInterleavedOps == InterleavedOps("store")

\* interleavedElementIndex of emitLoadInterleaved with the vectors counted from
\* the last.
reversedElementIndex(laneIndex, vectorIndex, numVectors) ==
    laneIndex * numVectors + (numVectors - 1 - vectorIndex)

\* interleavedElementIndex of emitLoadInterleaved and of emitStoreInterleaved.
loadedElementIndex(laneIndex, vectorIndex, numVectors) == laneIndex * numVectors + vectorIndex
storedElementIndex(vectorIndex, laneIndex, numLanes) == vectorIndex * numLanes + laneIndex

\* loads[vectorIndex] of emitLoadInterleaved.
Loads(vectorIndex) == <<"loads[0]", "loads[1]", "loads[2]", "loads[3]">>[vectorIndex + 1]

\* The inner loop of emitLoadInterleaved over its first numLanes lanes.
RECURSIVE deinterleavedVector(_, _, _, _, _)
deinterleavedVector(llvmValueType, vectorIndex, numLanes, numVectors, lanes) ==
    IF lanes = 0 THEN UndefValue(llvmValueType)
    ELSE LET laneIndex == lanes - 1
             interleavedElementIndex == loadedElementIndex(laneIndex, vectorIndex, numVectors)
         IN  CreateInsertElement(
                 deinterleavedVector(llvmValueType, vectorIndex, numLanes, numVectors,
                                     laneIndex),
                 CreateExtractElement(ValueOf(Loads(interleavedElementIndex \div numLanes)),
                                      interleavedElementIndex % numLanes),
                 laneIndex)

\* The loop of emitLoadInterleaved that makes its first vectors loads.
RECURSIVE emitLoads(_, _, _)
emitLoads(ctx, pointer, vectors) ==
    IF vectors = 0 THEN ctx
    ELSE LET vectorIndex == vectors - 1
             load == setVolatile(setAlignment(
                         CreateLoad(Loads(vectorIndex),
                                    CreateInBoundsGEP(pointer, emitLiteral("i32", vectorIndex))),
                         1), TRUE)
         IN  Insert(emitLoads(ctx, pointer, vectorIndex), load)

\* The loops of emitLoadInterleaved that push its first vectors results.
RECURSIVE pushDeinterleaved(_, _, _, _, _)
pushDeinterleaved(ctx, llvmValueType, numVectors, numLanes, vectors) ==
    IF vectors = 0 THEN ctx
    ELSE push(pushDeinterleaved(ctx, llvmValueType, numVectors, numLanes, vectors - 1),
              deinterleavedVector(llvmValueType, vectors - 1, numLanes, numVectors, numLanes))

RECURSIVE pushResults(_, _, _)
pushResults(ctx, results, vectors) ==
    IF vectors = 0 THEN ctx
    ELSE push(pushResults(ctx, results, vectors - 1), CreateExtractValue(results, vectors - 1))

\* emitLoadInterleaved(functionContext, llvmValueType, aarch64IntrinsicID, alignmentLog2,
\* offset, memoryIndex, numVectors, numLanes)
emitLoadInterleaved(ctx, o, imm, targetArch) ==
    LET address == Popped(ctx)
        boundedAddress == getOffsetAndBoundedAddress(address, imm.offset)
        pointer == coerceAddressToPointer(boundedAddress, o.llvmValueType, imm.memoryIndex)
    IN  IF targetArch = "aarch64"
        THEN pushResults(Insert(pop(ctx),
                                LLVMIntrinsic("results",
                                              <<"", "aarch64_neon_ld2", "aarch64_neon_ld3",
                                                "aarch64_neon_ld4">>[o.numVectors],
                                              <<pointer>>)),
                         ValueOf("results"), o.numVectors)
        ELSE pushDeinterleaved(emitLoads(pop(ctx), pointer, o.numVectors), o.llvmValueType,
                               o.numVectors, o.numLanes, o.numVectors)

\* values[vectorIndex] of emitStoreInterleaved: the vectors are popped last
\* first.
Values(ctx, llvmValueType, numVectors, vectorIndex) ==
    CreateBitCast(ctx.stack[Len(ctx.stack) - (numVectors - vectorIndex - 1)], llvmValueType)

\* The inner loop of emitStoreInterleaved over its first numLanes lanes.
RECURSIVE interleavedVector(_, _, _, _)
interleavedVector(ctx, o, vectorIndex, lanes) ==
    IF lanes = 0 THEN UndefValue(o.llvmValueType)
    ELSE LET laneIndex == lanes - 1
             interleavedElementIndex == storedElementIndex(vectorIndex, laneIndex, o.numLanes)
             deinterleavedVectorIndex == interleavedElementIndex % o.numVectors
             deinterleavedLaneIndex == interleavedElementIndex \div o.numVectors
         IN  CreateInsertElement(
                 interleavedVector(ctx, o, vectorIndex, laneIndex),
                 CreateExtractElement(Values(ctx, o.llvmValueType, o.numVectors,
                                             deinterleavedVectorIndex),
                                      deinterleavedLaneIndex),
                 laneIndex)

\* The loop of emitStoreInterleaved that makes its first vectors stores.
RECURSIVE emitStores(_, _, _, _, _)
emitStores(ctx, before, o, pointer, vectors) ==
    IF vectors = 0 THEN ctx
    ELSE LET vectorIndex == vectors - 1
             store == setAlignment(setVolatile(
                          CreateStore(interleavedVector(before, o, vectorIndex, o.numLanes),
                                      CreateInBoundsGEP(pointer,
                                                        emitLiteral("i32", vectorIndex))),
                          TRUE), 1)
         IN  Insert(emitStores(ctx, before, o, pointer, vectorIndex), store)

RECURSIVE popAll(_, _)
popAll(ctx, n) == IF n = 0 THEN ctx ELSE popAll(pop(ctx), n - 1)

\* emitStoreInterleaved(functionContext, llvmValueType, aarch64IntrinsicID, alignmentLog2,
\* offset, memoryIndex, numVectors, numLanes)
emitStoreInterleaved(ctx, o, imm, targetArch) ==
    LET address == Popped(popAll(ctx, o.numVectors))
        popped == popAll(ctx, o.numVectors + 1)
        boundedAddress == getOffsetAndBoundedAddress(address, imm.offset)
        pointer == coerceAddressToPointer(boundedAddress, o.llvmValueType, imm.memoryIndex)
    IN  IF targetArch = "aarch64"
        THEN Insert(popped,
                    LLVMIntrinsic("call",
                                  <<"", "aarch64_neon_st2", "aarch64_neon_st3",
                                    "aarch64_neon_st4">>[o.numVectors],
                                  [i \in 1..(o.numVectors + 1) |->
                                      IF i <= o.numVectors
                                      THEN Values(ctx, o.llvmValueType, o.numVectors, i - 1)
                                      ELSE pointer]))
        ELSE emitStores(popped, ctx, o, pointer, o.numVectors)

(***************************************************************************)
(* The lowering of one operator: each action is one of the functions the   *)
(* operator visitor calls, applied to an operand stack that holds the      *)
(* operator's operands.                                                    *)
(***************************************************************************)
\* What is kept of a lowering: the operator, the macro or function that
\* lowered it, its immediate, the target when the function read it, and the
\* context the function left.
Emitted(name, by, o, imm, targetArch, ctx) ==
    [operator |-> name, by |-> by, op |-> o, imm |-> imm, targetArch |-> targetArch,
     stack |-> ctx.stack, blocks |-> ctx.blocks, insertBlock |-> ctx.insertBlock]
NotRead == "not read"

emitLoadOp ==
    \E o \in LoadOps : \E imm \in LoadOrStoreImm(o.naturalAlignmentLog2) :
        emitted' = Emitted(o.name, "EMIT_LOAD_OP", o, imm, NotRead,
                           EMIT_LOAD_OP(EmitFunctionContext(1), o, imm))

emitStoreOp ==
    \E o \in StoreOps : \E imm \in LoadOrStoreImm(o.naturalAlignmentLog2) :
        emitted' = Emitted(o.name, "EMIT_STORE_OP", o, imm, NotRead,
                           EMIT_STORE_OP(EmitFunctionContext(2), o, imm))

emitLoadInterleavedOp ==
    \E o \in LoadInterleavedOps : \E imm \in LoadOrStoreImm(o.naturalAlignmentLog2) :
        \E targetArch \in TargetArchs :
            emitted' = Emitted(o.name, "emitLoadInterleaved", o, imm, targetArch,
                               emitLoadInterleaved(EmitFunctionContext(1), o, imm, targetArch))

emitStoreInterleavedOp ==
    \E o \in StoreInterleavedOps : \E imm \in LoadOrStoreImm(o.naturalAlignmentLog2) :
        \E targetArch \in TargetArchs :
            emitted' = Emitted(o.name, "emitStoreInterleaved", o, imm, targetArch,
                               emitStoreInterleaved(EmitFunctionContext(o.numVectors + 1), o,
                                                    imm, targetArch))

emitMemoryCopy ==
    \E imm \in MemoryCopyImm : \E targetArch \in TargetArchs :
        emitted' = Emitted("memory_copy", "memory_copy", [name |-> "memory_copy"], imm,
                           targetArch, memory_copy(EmitFunctionContext(3), imm, targetArch))

emitMemoryFill ==
    \E imm \in MemoryImm : \E targetArch \in TargetArchs :
        emitted' = Emitted("memory_fill", "memory_fill", [name |-> "memory_fill"], imm,
                           targetArch, memory_fill(EmitFunctionContext(3), imm, targetArch))

emitMemoryInit ==
    \E imm \in [memoryIndex : 0..MaxMemoryIndex, dataSegmentIndex : {0}] :
        emitted' = Emitted("memory_init", "memory_init", [name |-> "memory_init"], imm,
                           NotRead, memory_init(EmitFunctionContext(3), imm))

emitAtomicNotify ==
    \E imm \in LoadOrStoreImm(2) :
        emitted' = Emitted("atomic_notify", "atomic_notify",
                           [name |-> "atomic_notify", naturalAlignmentLog2 |-> 2], imm,
                           NotRead, atomic_notify(EmitFunctionContext(2), imm))

emitAtomicWait ==
    \E o \in AtomicWaitOps : \E imm \in LoadOrStoreImm(o.naturalAlignmentLog2) :
        emitted' = Emitted(o.name, "atomic_wait", o, imm, NotRead,
                           atomic_wait(EmitFunctionContext(3), o, imm))

emitAtomicLoadOp ==
    \E o \in AtomicLoadOps : \E imm \in LoadOrStoreImm(o.naturalAlignmentLog2) :
        emitted' = Emitted(o.name, "EMIT_ATOMIC_LOAD_OP", o, imm, NotRead,
                           EMIT_ATOMIC_LOAD_OP(EmitFunctionContext(1), o, imm))

emitAtomicStoreOp ==
    \E o \in AtomicStoreOps : \E imm \in LoadOrStoreImm(o.naturalAlignmentLog2) :
        emitted' = Emitted(o.name, "EMIT_ATOMIC_STORE_OP", o, imm, NotRead,
                           EMIT_ATOMIC_STORE_OP(EmitFunctionContext(2), o, imm))

emitAtomicCmpxchg ==
    \E o \in AtomicCmpxchgOps : \E imm \in LoadOrStoreImm(o.alignmentLog2) :
        emitted' = Emitted(o.name, "EMIT_ATOMIC_CMPXCHG", o, imm, NotRead,
                           EMIT_ATOMIC_CMPXCHG(EmitFunctionContext(3), o, imm))

emitAtomicRmw ==
    \E o \in AtomicRmwOps : \E imm \in LoadOrStoreImm(o.alignmentLog2) :
        emitted' = Emitted(o.name, "EMIT_ATOMIC_RMW", o, imm, NotRead,
                           EMIT_ATOMIC_RMW(EmitFunctionContext(2), o, imm))

\* One operator is lowered in a context: the operators of a function do not
\* read what was made for the ones before them.
NextEmit ==
    /\ UNCHANGED <<compVars, hostVars, quotaVars, trapVars, parseVars, machine>>
    /\ emitted.operator = "none"
    /\ \/ emitLoadOp
       \/ emitStoreOp
       \/ emitLoadInterleavedOp
       \/ emitStoreInterleavedOp
       \/ emitMemoryCopy
       \/ emitMemoryFill
       \/ emitMemoryInit
       \/ emitAtomicNotify
       \/ emitAtomicWait
       \/ emitAtomicLoadOp
       \/ emitAtomicStoreOp
       \/ emitAtomicCmpxchg
       \/ emitAtomicRmw

SpecEmit == Init /\ [][NextEmit]_vars

(***************************************************************************)
(* The run of the code made for an operator.                               *)
(*                                                                         *)
(* A value of the run is an integer of the address computation, a datum    *)
(* (the bytes of a scalar, least significant first), a vector (the bytes   *)
(* of each lane) or the results of a call; a pointer is a memory, an       *)
(* offset in bytes from the base of the memory and the type of what it     *)
(* points to.                                                              *)
(***************************************************************************)
Integer(n) == [kind |-> "int", n |-> n]
Bytes(bytes) == [kind |-> "bytes", bytes |-> bytes]
Vector(lanes) == [kind |-> "vector", lanes |-> lanes]
Struct(fields) == [kind |-> "struct", fields |-> fields]
Pointer(memory, offset, type) == [memory |-> memory, offset |-> offset, type |-> type]

\* The width in bits of an integer type of the address computation.
BitsOf(type) == IF type = "i32" THEN AddressBits ELSE PointerBits

\* The integer of w bits read as a signed number.
Signed(n, w) == IF n >= 2^(w - 1) THEN n - 2^w ELSE n

\* The bitwise operators, on naturals.
RECURSIVE BitAnd(_, _)
BitAnd(a, b) ==
    IF a = 0 \/ b = 0 THEN 0
    ELSE ((a % 2) * (b % 2)) + 2 * BitAnd(a \div 2, b \div 2)
RECURSIVE BitOr(_, _)
BitOr(a, b) ==
    IF a = 0 THEN b
    ELSE IF b = 0 THEN a
    ELSE (IF a % 2 = 1 \/ b % 2 = 1 THEN 1 ELSE 0) + 2 * BitOr(a \div 2, b \div 2)
RECURSIVE BitXor(_, _)
BitXor(a, b) ==
    IF a = 0 THEN b
    ELSE IF b = 0 THEN a
    ELSE ((a + b) % 2) + 2 * BitXor(a \div 2, b \div 2)

\* The first n bytes of the sum and of the difference of two data.
RECURSIVE AddBytes(_, _, _, _)
AddBytes(a, b, carry, n) ==
    IF n = 0 THEN <<>>
    ELSE <<(a[1] + b[1] + carry) % 256>>
         \o AddBytes(Tail(a), Tail(b), (a[1] + b[1] + carry) \div 256, n - 1)
RECURSIVE SubBytes(_, _, _, _)
SubBytes(a, b, borrow, n) ==
    IF n = 0 THEN <<>>
    ELSE <<(256 + a[1] - b[1] - borrow) % 256>>
         \o SubBytes(Tail(a), Tail(b), IF a[1] < b[1] + borrow THEN 1 ELSE 0, n - 1)

\* llvm::AtomicRMWInst::BinOp applied to the datum in memory and the operand.
BinOp(binOp, old, value) ==
    CASE binOp = "Xchg" -> value
      [] binOp = "Add" -> AddBytes(old, value, 0, Len(old))
      [] binOp = "Sub" -> SubBytes(old, value, 0, Len(old))
      [] binOp = "And" -> [k \in DOMAIN old |-> BitAnd(old[k], value[k])]
      [] binOp = "Or" -> [k \in DOMAIN old |-> BitOr(old[k], value[k])]
      [] binOp = "Xor" -> [k \in DOMAIN old |-> BitXor(old[k], value[k])]

\* The bytes of a datum extended to n bytes, by zeros or by its sign.
Extended(bytes, n, signed) ==
    [k \in 1..n |->
        IF k <= Len(bytes) THEN bytes[k]
        ELSE IF signed /\ bytes[Len(bytes)] >= 128 THEN 255 ELSE 0]

\* The size in bytes of one lane of a vector type.
LaneSize(type) == SizeOf(type) \div NumLanes(type)

\* zext and sext of LLVM.
Extend(v, type, signed) ==
    CASE v.kind = "int" ->
            IF signed /\ v.n >= 2^(AddressBits - 1)
            THEN Integer(v.n + 2^BitsOf(type) - 2^AddressBits)
            ELSE v
      [] v.kind = "bytes" -> Bytes(Extended(v.bytes, SizeOf(type), signed))
      [] v.kind = "vector" ->
            Vector([l \in DOMAIN v.lanes |-> Extended(v.lanes[l], LaneSize(type), signed)])

\* trunc of LLVM.
Truncated(v, type) ==
    CASE v.kind = "int" -> Integer(v.n % 2^(8 * SizeOf(type)))
      [] v.kind = "bytes" -> Bytes(SubSeq(v.bytes, 1, SizeOf(type)))

\* The bytes a value is stored as, and the value n bytes are loaded as.
RECURSIVE Flattened(_)
Flattened(lanes) == IF lanes = <<>> THEN <<>> ELSE Head(lanes) \o Flattened(Tail(lanes))
BytesOf(v, size) ==
    CASE v.kind = "int" -> [k \in 1..size |-> (v.n \div 256^(k - 1)) % 256]
      [] v.kind = "bytes" -> v.bytes
      [] v.kind = "vector" -> Flattened(v.lanes)
Lanes(bytes, type) ==
    [l \in 1..NumLanes(type) |->
        SubSeq(bytes, (l - 1) * LaneSize(type) + 1, l * LaneSize(type))]
IsVectorType(type) ==
    type \in {"i8x16", "i16x8", "i32x4", "i64x2", "f32x4", "f64x2", "i8x8", "i16x4", "i32x2"}
Loaded(bytes, type) == IF IsVectorType(type) THEN Vector(Lanes(bytes, type)) ELSE Bytes(bytes)

\* The value of an llvm::Value in a run m: its operands, and the values its
\* loads, atomic operations, calls and phi nodes have given so far.
RECURSIVE Eval(_, _)
Eval(t, m) ==
    CASE t.op = "operand" -> m.operands[t.index]
      [] t.op = "literal" -> Integer(t.value)
      [] t.op = "value" -> m.regs[t.id]
      [] t.op = "zext" -> Extend(Eval(t.arg, m), t.type, FALSE)
      [] t.op = "sext" -> Extend(Eval(t.arg, m), t.type, TRUE)
      [] t.op = "trunc" -> Truncated(Eval(t.arg, m), t.type)
      [] t.op = "add" -> Integer((Eval(t.lhs, m).n + Eval(t.rhs, m).n) % 2^PointerBits)
      [] t.op = "sub" -> Integer((Eval(t.lhs, m).n + 2^PointerBits - Eval(t.rhs, m).n)
                             % 2^PointerBits)
      [] t.op = "and" -> Integer(BitAnd(Eval(t.lhs, m).n, Eval(t.rhs, m).n))
      [] t.op = "icmp ne" -> Eval(t.lhs, m).n # Eval(t.rhs, m).n
      [] t.op = "icmp ult" -> Eval(t.lhs, m).n < Eval(t.rhs, m).n
      [] t.op = "memoryBasePointer" -> Pointer(t.memoryIndex, 0, "i8")
      [] t.op = "gep" ->
            LET p == Eval(t.pointer, m)
                index == Eval(t.index, m).n
                bits == IF t.index.op = "literal" THEN BitsOf(t.index.type) ELSE PointerBits
            IN  Pointer(p.memory, p.offset + Signed(index, bits) * SizeOf(p.type), p.type)
      [] t.op = "pointercast" ->
            LET p == Eval(t.arg, m) IN Pointer(p.memory, p.offset, t.type)
      [] t.op = "bitcast" ->
            LET v == Eval(t.arg, m)
            IN  Loaded(BytesOf(v, SizeOf(t.type)), t.type)
      [] t.op = "undef" -> Vector([l \in 1..NumLanes(t.type) |-> <<>>])
      [] t.op = "extractelement" -> Bytes(Eval(t.vector, m).lanes[t.lane + 1])
      [] t.op = "insertelement" ->
            LET v == Eval(t.vector, m)
            IN  Vector([v.lanes EXCEPT ![t.lane + 1] = Eval(t.element, m).bytes])
      [] t.op = "extractvalue" -> Eval(t.aggregate, m).fields[t.index + 1]
      [] t.op = "memoryId" -> Integer(t.memoryIndex)
      [] t.op = "instanceId" -> Integer(0)
      [] t.op \in {"splat<16>", "splat<8>", "splat<4>", "splat<2>"} ->
            LET v == Eval(t.arg, m)
            IN  Vector([l \in 1..NumLanes(t.type) |-> v.bytes])

(***************************************************************************)
(* The memories of the run, and the run of one instruction.                *)
(***************************************************************************)
\* The bytes committed in each memory of a run of the bulk operators, and of a
\* run of the vector and atomic operators. Past them are the guard pages.
MemoryBytes == 6
VectorMemoryBytes == 72

\* The memories before a run: every byte of every memory differs.
Memories(size) == [i \in 0..MaxMemoryIndex |-> [k \in 1..size |-> 100 * i + k]]

\* The access of size bytes at p is in the committed bytes of its memory.
InBounds(memories, p, size) ==
    p.offset >= 0 /\ p.offset + size <= Len(memories[p.memory])
Read(memories, p, size) == SubSeq(memories[p.memory], p.offset + 1, p.offset + size)
Write(memories, p, bytes) ==
    [memories EXCEPT ![p.memory] =
        [k \in DOMAIN @ |-> IF k - p.offset \in DOMAIN bytes THEN bytes[k - p.offset]
                            ELSE @[k]]]

\* The run of the code in e on the operands and the memories given, after the
\* runs in earlier.
Running(e, operands, memories, earlier) ==
    [status |-> "running", operator |-> e.operator, by |-> e.by, op |-> e.op, imm |-> e.imm,
     targetArch |-> e.targetArch, blocks |-> e.blocks, stack |-> e.stack,
     block |-> "entry", previous |-> "none", pc |-> 1,
     operands |-> operands, regs |-> <<>>, memories |-> memories, before |-> memories,
     events |-> <<>>, trap |-> "none", results |-> <<>>, earlier |-> earlier]

\* The instruction the run is at, if it is at one.
AtInstruction ==
    /\ machine.status = "running"
    /\ machine.pc <= Len(machine.blocks[machine.block])
Instruction == machine.blocks[machine.block][machine.pc]
At(op) == AtInstruction /\ Instruction.op = op

Event(event, name, at) == [event |-> event, name |-> name, at |-> at]
\* The run goes on to the next instruction of the block.
Continued(m) == [m EXCEPT !.pc = @ + 1]
\* An access outside the committed bytes: past them it hits a guard page and
\* the signal is turned into a trap; before the base of the memory it is
\* outside the sandbox.
Faulted(m, p) ==
    IF p.offset < 0
    THEN [m EXCEPT !.status = "outside the sandbox"]
    ELSE [m EXCEPT !.status = "trapped", !.trap = "outOfBoundsMemoryAccess"]

stepLoad ==
    /\ At("load")
    /\ LET i == Instruction
           p == Eval(i.pointer, machine)
           size == SizeOf(p.type)
           m == [machine EXCEPT !.events = Append(@, Event("load", i.ordering, p.offset))]
       IN  machine' =
             IF InBounds(machine.memories, p, size)
             THEN Continued([m EXCEPT !.regs = (i.id :> Loaded(Read(m.memories, p, size),
                                                               p.type)) @@ @])
             ELSE Faulted(m, p)

stepStore ==
    /\ At("store")
    /\ LET i == Instruction
           p == Eval(i.pointer, machine)
           size == SizeOf(p.type)
           m == [machine EXCEPT !.events = Append(@, Event("store", i.ordering, p.offset))]
       IN  machine' =
             IF InBounds(machine.memories, p, size)
             THEN Continued([m EXCEPT !.memories =
                                Write(@, p, BytesOf(Eval(i.value, machine), size))])
             ELSE Faulted(m, p)

stepAtomicRMW ==
    /\ At("atomicrmw")
    /\ LET i == Instruction
           p == Eval(i.pointer, machine)
           size == SizeOf(p.type)
           old == Read(machine.memories, p, size)
           m == [machine EXCEPT !.events = Append(@, Event("atomicrmw", i.ordering, p.offset))]
       IN  machine' =
             IF InBounds(machine.memories, p, size)
             THEN Continued([m EXCEPT
                     !.memories = Write(@, p, BinOp(i.binOp, old,
                                                    BytesOf(Eval(i.value, machine), size))),
                     !.regs = (i.id :> Bytes(old)) @@ @])
             ELSE Faulted(m, p)

stepAtomicCmpXchg ==
    /\ At("cmpxchg")
    /\ LET i == Instruction
           p == Eval(i.pointer, machine)
           size == SizeOf(p.type)
           old == Read(machine.memories, p, size)
           equal == old = BytesOf(Eval(i.expected, machine), size)
           m == [machine EXCEPT !.events = Append(@, Event("cmpxchg", i.ordering, p.offset))]
       IN  machine' =
             IF InBounds(machine.memories, p, size)
             THEN Continued([m EXCEPT
                     !.memories = IF equal
                                  THEN Write(@, p, BytesOf(Eval(i.replacement, machine), size))
                                  ELSE @,
                     !.regs = (i.id :> Struct(<<Bytes(old), Integer(IF equal THEN 1 ELSE 0)>>))
                              @@ @])
             ELSE Faulted(m, p)

\* The conditional call of a trap intrinsic: the call does not return.
stepConditionalTrap ==
    /\ At("trapIf")
    /\ LET i == Instruction
           m == [machine EXCEPT
                    !.events = Append(@, Event("trapIf", i.intrinsic, Eval(i.args[1], machine).n))]
       IN  machine' = IF Eval(i.condition, machine)
                      THEN [m EXCEPT !.status = "trapped", !.trap = i.intrinsic]
                      ELSE Continued(m)

\* The call of a runtime intrinsic that gives an i32: what it gives is the
\* runtime's choice.
IntrinsicResults == {0, 1}
stepRuntimeIntrinsic ==
    /\ At("call")
    /\ \E result \in IntrinsicResults :
          LET i == Instruction
          IN  machine' = Continued([machine EXCEPT
                  !.events = Append(@, Event("call", i.intrinsic, Eval(i.args[1], machine).n)),
                  !.regs = (i.id :> Struct(<<Integer(result)>>)) @@ @])

\* rep movsb: the bytes are copied one by one at ascending addresses, and the
\* first one outside the committed bytes ends the copy. Gives the memories,
\* and the pointer that faulted if one did.
RECURSIVE RepMovsb(_, _, _, _)
RepMovsb(memories, dest, source, n) ==
    IF n = 0 THEN [memories |-> memories, faulted |-> FALSE]
    ELSE IF ~InBounds(memories, source, 1)
    THEN [memories |-> memories, faulted |-> TRUE, at |-> source]
    ELSE IF ~InBounds(memories, dest, 1)
    THEN [memories |-> memories, faulted |-> TRUE, at |-> dest]
    ELSE RepMovsb(Write(memories, dest, Read(memories, source, 1)),
                  [dest EXCEPT !.offset = @ + 1], [source EXCEPT !.offset = @ + 1], n - 1)

\* "rep stosb" with the destination, the byte and the count the inline assembly
\* is called with: the byte is written to n ascending addresses; the first
\* one outside the committed bytes ends the fill.
RECURSIVE RepStosb(_, _, _, _)
RepStosb(memories, dest, byte, n) ==
    IF n = 0 THEN [memories |-> memories, faulted |-> FALSE]
    ELSE IF ~InBounds(memories, dest, 1)
    THEN [memories |-> memories, faulted |-> TRUE, at |-> dest]
    ELSE RepStosb(Write(memories, dest, <<byte>>), [dest EXCEPT !.offset = @ + 1], byte, n - 1)

stepInlineAsm ==
    /\ At("asm")
    /\ LET i == Instruction
           dest == Eval(i.args[1], machine)
           n == Eval(i.args[3], machine).n
           done == IF i.text = "rep movsb"
                   THEN RepMovsb(machine.memories, dest, Eval(i.args[2], machine), n)
                   ELSE RepStosb(machine.memories, dest,
                                 BytesOf(Eval(i.args[2], machine), 1)[1], n)
           m == [machine EXCEPT !.events = Append(@, Event("asm", i.text, dest.offset)),
                                !.memories = done.memories]
       IN  machine' = IF done.faulted THEN Faulted(m, done.at) ELSE Continued(m)

stepPHI ==
    /\ At("phi")
    /\ LET i == Instruction
           incoming == CHOOSE v \in i.incoming : v[2] = machine.previous
       IN  machine' = Continued([machine EXCEPT
                          !.regs = (i.id :> Eval(incoming[1], machine)) @@ @])

Branched(m, target) == [m EXCEPT !.previous = m.block, !.block = target, !.pc = 1]

stepBr ==
    /\ At("br")
    /\ machine' = Branched(machine, Instruction.target)

stepCondBr ==
    /\ At("condbr")
    /\ machine' = Branched(machine, IF Eval(Instruction.condition, machine)
                                    THEN Instruction.ifTrue ELSE Instruction.ifFalse)

\* The code made for the operator ends in the block the function goes on in:
\* the operand stack holds what the operator gives.
stepEnd ==
    /\ machine.status = "running"
    /\ machine.pc > Len(machine.blocks[machine.block])
    /\ machine' = [machine EXCEPT
                      !.status = "returned",
                      !.results = [k \in DOMAIN machine.stack |-> Eval(machine.stack[k], machine)]]

(***************************************************************************)
(* The runs: an operator is lowered for a target, and the code made for it *)
(* is run on operands and memories.                                        *)
(***************************************************************************)
\* The addresses and byte counts the i32 operands of the runs hold: the top bit
\* of the greatest ones is set.
MaxI32 == 7
I32Values == 0..MaxI32
\* The targets of the runs: one with rep movsb and one without.
RunTargetArchs == {"x86_64", "arm"}
\* The immediates of the runs: the least and the greatest static offset, and,
\* where the alignment hint is not what the code is made from, the least and
\* the greatest hint.
RunOffsets == {0, MaxOffset}
RunImm(naturalAlignmentLog2) ==
    {imm \in LoadOrStoreImm(naturalAlignmentLog2) :
        imm.alignmentLog2 \in {0, naturalAlignmentLog2} /\ imm.offset \in RunOffsets}
RunImmOfEveryHint(naturalAlignmentLog2) ==
    {imm \in LoadOrStoreImm(naturalAlignmentLog2) : imm.offset \in RunOffsets}

\* The operands that are data: a scalar of size bytes, and the vector that is
\* operand v of an interleaved store. Their bytes differ from each other and
\* from every byte of the memories.
DatumOperand(size) == Bytes([k \in 1..size |-> 189 + k])
VectorOperand(v, type) == Vector(Lanes([b \in 1..16 |-> 189 + 16 * v + b], type))

Idle == machine.status = "idle"

runMemoryCopy ==
    /\ Idle
    /\ \E imm \in MemoryCopyImm : \E targetArch \in RunTargetArchs :
       \E dest \in I32Values : \E source \in I32Values : \E numBytes \in I32Values :
          machine' = Running(Emitted("memory_copy", "memory_copy", [name |-> "memory_copy"],
                                     imm, targetArch,
                                     memory_copy(EmitFunctionContext(3), imm, targetArch)),
                             <<Integer(dest), Integer(source), Integer(numBytes)>>,
                             Memories(MemoryBytes), <<>>)

\* The values memory.fill is given: the greatest byte, and values of more than
\* eight bits.
FillValues == {0, 255, 256, 263}

runMemoryFill ==
    /\ Idle
    /\ \E imm \in MemoryImm : \E targetArch \in RunTargetArchs :
       \E dest \in I32Values : \E value \in FillValues : \E numBytes \in I32Values :
          machine' = Running(Emitted("memory_fill", "memory_fill", [name |-> "memory_fill"],
                                     imm, targetArch,
                                     memory_fill(EmitFunctionContext(3), imm, targetArch)),
                             <<Integer(dest), Integer(value), Integer(numBytes)>>,
                             Memories(MemoryBytes), <<>>)

runStoreInterleaved ==
    /\ Idle
    /\ \E o \in StoreInterleavedOps : \E imm \in RunImm(o.naturalAlignmentLog2) :
       \E targetArch \in RunTargetArchs : \E address \in I32Values :
          machine' = Running(Emitted(o.name, "emitStoreInterleaved", o, imm, targetArch,
                                     emitStoreInterleaved(EmitFunctionContext(o.numVectors + 1),
                                                          o, imm, targetArch)),
                             [k \in 1..(o.numVectors + 1) |->
                                 IF k = 1 THEN Integer(address)
                                 ELSE VectorOperand(k - 2, o.llvmValueType)],
                             Memories(VectorMemoryBytes), <<>>)

runLoadInterleaved ==
    /\ Idle
    /\ \E o \in LoadInterleavedOps : \E imm \in RunImm(o.naturalAlignmentLog2) :
       \E targetArch \in RunTargetArchs : \E address \in I32Values :
          machine' = Running(Emitted(o.name, "emitLoadInterleaved", o, imm, targetArch,
                                     emitLoadInterleaved(EmitFunctionContext(1), o, imm,
                                                         targetArch)),
                             <<Integer(address)>>, Memories(VectorMemoryBytes), <<>>)

\* What is kept of a run that returned when the next operator is run.
Earlier(m) == [operator |-> m.operator, op |-> m.op, imm |-> m.imm, operands |-> m.operands,
               results |-> m.results, before |-> m.before]

\* After an interleaved store returned, the interleaved load of the same
\* vectors reads from the same address.
runLoadInterleavedBack ==
    /\ machine.status = "returned"
    /\ machine.by = "emitStoreInterleaved"
    /\ \E o \in LoadInterleavedOps :
          /\ o.llvmValueType = machine.op.llvmValueType
          /\ o.numVectors = machine.op.numVectors
          /\ machine' = Running(Emitted(o.name, "emitLoadInterleaved", o, machine.imm,
                                        machine.targetArch,
                                        emitLoadInterleaved(EmitFunctionContext(1), o,
                                                            machine.imm, machine.targetArch)),
                                <<machine.operands[1]>>, machine.memories,
                                <<Earlier(machine)>>)

runAtomicLoadOp ==
    /\ Idle
    /\ \E o \in AtomicLoadOps : \E imm \in RunImm(o.naturalAlignmentLog2) :
       \E address \in I32Values :
          machine' = Running(Emitted(o.name, "EMIT_ATOMIC_LOAD_OP", o, imm, NotRead,
                                     EMIT_ATOMIC_LOAD_OP(EmitFunctionContext(1), o, imm)),
                             <<Integer(address)>>, Memories(VectorMemoryBytes), <<>>)

runAtomicStoreOp ==
    /\ Idle
    /\ \E o \in AtomicStoreOps : \E imm \in RunImm(o.naturalAlignmentLog2) :
       \E address \in I32Values :
          machine' = Running(Emitted(o.name, "EMIT_ATOMIC_STORE_OP", o, imm, NotRead,
                                     EMIT_ATOMIC_STORE_OP(EmitFunctionContext(2), o, imm)),
                             <<Integer(address), DatumOperand(SizeOf(o.destType))>>,
                             Memories(VectorMemoryBytes), <<>>)

\* The expected values of a compare-exchange: one that no memory holds and,
\* where the access is in the committed bytes, the one the memory holds.
ExpectedOperands(o, imm, address) ==
    LET p == Pointer(imm.memoryIndex, address + imm.offset, o.llvmMemoryType)
        size == SizeOf(o.llvmMemoryType)
        memories == Memories(VectorMemoryBytes)
    IN  {DatumOperand(SizeOf(o.valueTypeId))}
        \union (IF InBounds(memories, p, size)
                THEN {Bytes(Extended(Read(memories, p, size), SizeOf(o.valueTypeId), FALSE))}
                ELSE {})

runAtomicCmpxchg ==
    /\ Idle
    /\ \E o \in AtomicCmpxchgOps : \E imm \in RunImm(o.alignmentLog2) :
       \E address \in I32Values : \E expected \in ExpectedOperands(o, imm, address) :
          machine' = Running(Emitted(o.name, "EMIT_ATOMIC_CMPXCHG", o, imm, NotRead,
                                     EMIT_ATOMIC_CMPXCHG(EmitFunctionContext(3), o, imm)),
                             <<Integer(address), expected, DatumOperand(SizeOf(o.valueTypeId))>>,
                             Memories(VectorMemoryBytes), <<>>)

runAtomicRmw ==
    /\ Idle
    /\ \E o \in AtomicRmwOps : \E imm \in RunImm(o.alignmentLog2) :
       \E address \in I32Values :
          machine' = Running(Emitted(o.name, "EMIT_ATOMIC_RMW", o, imm, NotRead,
                                     EMIT_ATOMIC_RMW(EmitFunctionContext(2), o, imm)),
                             <<Integer(address), DatumOperand(SizeOf(o.valueTypeId))>>,
                             Memories(VectorMemoryBytes), <<>>)

runAtomicNotify ==
    /\ Idle
    /\ \E imm \in RunImmOfEveryHint(2) : \E address \in I32Values :
          machine' = Running(Emitted("atomic_notify", "atomic_notify",
                                     [name |-> "atomic_notify", naturalAlignmentLog2 |-> 2],
                                     imm, NotRead,
                                     atomic_notify(EmitFunctionContext(2), imm)),
                             <<Integer(address), Integer(1)>>, Memories(VectorMemoryBytes), <<>>)

runAtomicWait ==
    /\ Idle
    /\ \E o \in AtomicWaitOps : \E imm \in RunImmOfEveryHint(o.naturalAlignmentLog2) :
       \E address \in I32Values :
          machine' = Running(Emitted(o.name, "atomic_wait", o, imm, NotRead,
                                     atomic_wait(EmitFunctionContext(3), o, imm)),
                             <<Integer(address), DatumOperand(2^o.naturalAlignmentLog2),
                               DatumOperand(8)>>,
                             Memories(VectorMemoryBytes), <<>>)

NextRun ==
    /\ UNCHANGED <<compVars, hostVars, quotaVars, trapVars, parseVars, emitted>>
    /\ \/ runMemoryCopy
       \/ runMemoryFill
       \/ runStoreInterleaved
       \/ runLoadInterleaved
       \/ runLoadInterleavedBack
       \/ runAtomicLoadOp
       \/ runAtomicStoreOp
       \/ runAtomicCmpxchg
       \/ runAtomicRmw
       \/ runAtomicNotify
       \/ runAtomicWait
       \/ stepLoad
       \/ stepStore
       \/ stepAtomicRMW
       \/ stepAtomicCmpXchg
       \/ stepConditionalTrap
       \/ stepRuntimeIntrinsic
       \/ stepInlineAsm
       \/ stepPHI
       \/ stepBr
       \/ stepCondBr
       \/ stepEnd

SpecRun == Init /\ [][NextRun]_vars


\* The null entries of outTestCommands.
NullCommands == {i \in DOMAIN outTestCommands : outTestCommands[i] = NullCommand}

\* C25: when parseTestCommands has returned, outErrors holds an error for
\* every top-level form whose entry of outTestCommands is null: there are at
\* least as many errors as null entries, and a run that reports no error
\* returns no null command.
C25_NullCommandHasError ==
    parser.pc = "returned" =>
        /\ Cardinality(NullCommands) <= Len(outErrors)
        /\ outErrors = <<>> => NullCommands = {}

\* parseTestCommands has returned one null command and no error: the form was
\* an assert_invalid or assert_malformed whose keyword is not followed by '(',
\* and its error was recorded in the scoped ParseState.
C25_Divergence ==
    /\ parser.pc = "returned"
    /\ outTestCommands = <<NullCommand>>
    /\ outErrors = <<>>
    /\ form.keyword \in AssertKeywords
    /\ ~form.moduleParsed /\ ~form.innerReturned /\ form.closed

(***************************************************************************)
(* Properties of the lowering.                                             *)
(***************************************************************************)
\* The values an instruction or a value is made of.
Operands(t) ==
    LET Field(f) == IF f \in DOMAIN t THEN {t[f]} ELSE {}
    IN  UNION { Field("arg"), Field("lhs"), Field("rhs"), Field("pointer"), Field("vector"),
                Field("element"), Field("aggregate"), Field("condition"), Field("expected"),
                Field("replacement"),
                IF t.op = "gep" THEN {t.index} ELSE {},
                IF t.op \in {"store", "atomicrmw"} THEN {t.value} ELSE {},
                IF "args" \in DOMAIN t THEN {t.args[i] : i \in DOMAIN t.args} ELSE {},
                IF t.op = "phi" THEN {i[1] : i \in t.incoming} ELSE {} }

RECURSIVE Terms(_)
Terms(t) == {t} \union UNION {Terms(c) : c \in Operands(t)}

\* The instructions of the code made for the operator, and every value in them
\* or left on the operand stack.
Instructions(e) == UNION {{e.blocks[b][i] : i \in DOMAIN e.blocks[b]} : b \in DOMAIN e.blocks}
AllTerms(e) ==
    UNION ({Terms(i) : i \in Instructions(e)} \union {Terms(e.stack[i]) : i \in DOMAIN e.stack})

\* The instructions that read or write memory through a pointer.
MemoryInstructions(e) ==
    {i \in Instructions(e) : i.op \in {"load", "store", "atomicrmw", "cmpxchg", "asm", "callLLVM"}}
\* The pointers an instruction is given.
PointersOf(i) ==
    (IF "pointer" \in DOMAIN i THEN {i.pointer} ELSE {})
    \union (IF "args" \in DOMAIN i
            THEN {i.args[k] : k \in {k \in DOMAIN i.args :
                                        i.args[k].op \in {"pointercast", "gep",
                                                          "memoryBasePointer"}}}
            ELSE {})

\* A 32-bit operand of the operator zero-extended to 64 bits, with or without
\* a zero-extended literal added to it.
IsZeroExtendedOperand(t) == t.op = "zext" /\ t.type = "i64" /\ t.arg.op = "operand"
IsZeroExtendedAddress(t) ==
    \/ IsZeroExtendedOperand(t)
    \/ /\ t.op = "add"
       /\ IsZeroExtendedOperand(t.lhs)
       /\ t.rhs.op = "zext" /\ t.rhs.type = "i64" /\ t.rhs.arg.op = "literal"

\* The pointer is the base pointer of a memory moved by a zero-extended address,
\* cast or indexed further.
RECURSIVE FormedFromZeroExtendedAddress(_)
FormedFromZeroExtendedAddress(p) ==
    CASE p.op = "pointercast" -> FormedFromZeroExtendedAddress(p.arg)
      [] p.op = "gep" -> IF p.pointer.op = "memoryBasePointer"
                         THEN IsZeroExtendedAddress(p.index)
                         ELSE FormedFromZeroExtendedAddress(p.pointer)
      [] OTHER -> FALSE

\* The functions that lower a memory access.
MemoryAccessLowerings ==
    {"EMIT_LOAD_OP", "EMIT_STORE_OP", "emitLoadInterleaved", "emitStoreInterleaved",
     "memory_copy", "memory_fill", "EMIT_ATOMIC_LOAD_OP", "EMIT_ATOMIC_STORE_OP",
     "EMIT_ATOMIC_CMPXCHG", "EMIT_ATOMIC_RMW"}

\* C12: whatever memory access is lowered, every instruction that reads or
\* writes memory does so through a pointer, and every pointer into a memory is
\* the memory's base pointer moved by the zero-extension to 64 bits of a 32-bit
\* operand (plus the zero-extended static offset): the base pointer of a memory
\* is used for nothing else, and no address is sign-extended.
C12_ZeroExtendedBeforePointer ==
    emitted.operator # "none" =>
        /\ emitted.by \in MemoryAccessLowerings => MemoryInstructions(emitted) # {}
        /\ \A i \in MemoryInstructions(emitted) :
              /\ PointersOf(i) # {}
              /\ \A p \in PointersOf(i) : FormedFromZeroExtendedAddress(p)
        /\ \A t \in AllTerms(emitted) :
              /\ t.op = "gep" /\ t.pointer.op = "memoryBasePointer"
                    => IsZeroExtendedAddress(t.index)
              /\ t.op # "gep" => \A c \in Operands(t) : c.op # "memoryBasePointer"
              /\ t.op = "sext" => t.arg.op # "operand"

\* An atomic read-modify-write with a static offset has been lowered, and its
\* pointer is formed from the sum of two zero-extensions.
C12_Witness ==
    /\ emitted.by = "EMIT_ATOMIC_RMW"
    /\ emitted.imm.offset = MaxOffset
    /\ \E i \in MemoryInstructions(emitted) :
          /\ i.op = "atomicrmw"
          /\ i.pointer.arg.index.op = "add"
          /\ IsZeroExtendedAddress(i.pointer.arg.index)

\* The macros that lower the atomic accesses, and the instructions that are
\* the accesses.
AtomicAccessLowerings ==
    {"EMIT_ATOMIC_LOAD_OP", "EMIT_ATOMIC_STORE_OP", "EMIT_ATOMIC_CMPXCHG", "EMIT_ATOMIC_RMW"}
AccessOf(by) ==
    CASE by = "EMIT_ATOMIC_LOAD_OP" -> "load"
      [] by = "EMIT_ATOMIC_STORE_OP" -> "store"
      [] by = "EMIT_ATOMIC_CMPXCHG" -> "cmpxchg"
      [] by = "EMIT_ATOMIC_RMW" -> "atomicrmw"
Accesses(e) == {i \in Instructions(e) : i.op \in {"load", "store", "cmpxchg", "atomicrmw"}}

\* C20 as stated: every atomic load, store, read-modify-write and compare-
\* exchange is made SequentiallyConsistent, volatile, and with the alignment
\* 1 << alignmentLog2 of its immediate.
C20_AtomicAlignedByImmediate ==
    emitted.by \in AtomicAccessLowerings =>
        /\ \E i \in Accesses(emitted) : i.op = AccessOf(emitted.by)
        /\ \A i \in Accesses(emitted) :
              /\ i.ordering = "SequentiallyConsistent"
              /\ i.volatile
              /\ i.alignment = 2^emitted.imm.alignmentLog2

\* C20, amended: every atomic load, store, read-modify-write and compare-
\* exchange is made SequentiallyConsistent (the compare-exchange for success
\* and for failure) and volatile; a load or a store is given the alignment
\* 1 << alignmentLog2 of its immediate, a read-modify-write or a compare-
\* exchange is given no alignment: the alignment hint of the immediate is not
\* read for them, and they access the memory type of the operator, whose size
\* is 1 << alignmentLog2 of the macro instance.
C20_AtomicOrderedVolatile ==
    emitted.by \in AtomicAccessLowerings =>
        /\ Cardinality(Accesses(emitted)) = 1
        /\ \A i \in Accesses(emitted) :
              /\ i.op = AccessOf(emitted.by)
              /\ i.ordering = "SequentiallyConsistent"
              /\ i.volatile
              /\ i.op \in {"load", "store"} => i.alignment = 2^emitted.imm.alignmentLog2
              /\ i.op = "cmpxchg" => i.failureOrdering = "SequentiallyConsistent"
              /\ i.op \in {"atomicrmw", "cmpxchg"} =>
                    /\ i.alignment = NoAlignment
                    /\ i.pointer.type = emitted.op.llvmMemoryType
                    /\ SizeOf(i.pointer.type) = 2^emitted.op.alignmentLog2

\* A 32-bit atomic add has been lowered with the alignment hint 1 in its
\* immediate.
C20_Witness ==
    /\ emitted.operator = "i32_atomic_rmw_add"
    /\ emitted.imm.alignmentLog2 = 0
    /\ \E i \in Accesses(emitted) : i.op = "atomicrmw" /\ i.binOp = "Add" /\ i.volatile

\* The functions that lower the non-atomic accesses, and the loads and stores
\* each of them has to make.
NonAtomicLowerings ==
    {"EMIT_LOAD_OP", "EMIT_STORE_OP", "emitLoadInterleaved", "emitStoreInterleaved",
     "memory_copy", "memory_fill"}
LoadsAndStores(e) == {i \in Instructions(e) : i.op \in {"load", "store"}}
MadeBy(e) ==
    CASE e.by = "EMIT_LOAD_OP" -> {"load"}
      [] e.by = "EMIT_STORE_OP" -> {"store"}
      [] e.by = "emitLoadInterleaved" -> IF e.targetArch = "aarch64" THEN {} ELSE {"load"}
      [] e.by = "emitStoreInterleaved" -> IF e.targetArch = "aarch64" THEN {} ELSE {"store"}
      [] e.by = "memory_copy" -> {"load", "store"}
      [] e.by = "memory_fill" -> IF e.targetArch \in {"x86", "x86_64"} THEN {} ELSE {"store"}

\* C21: every load and store made for a non-atomic operator (plain, splat and
\* widening loads, plain and v128 stores, the byte loops of memory.copy and
\* memory.fill, the interleaved loads and stores of a target other than
\* aarch64) has alignment 1, is volatile and is not atomic, whatever alignment
\* hint the immediate carries; and each of these lowerings makes the loads
\* and stores it is for.
C21_NonAtomicUnalignedVolatile ==
    emitted.by \in NonAtomicLowerings =>
        /\ {i.op : i \in LoadsAndStores(emitted)} = MadeBy(emitted)
        /\ \A i \in LoadsAndStores(emitted) :
              /\ i.alignment = 1
              /\ i.volatile
              /\ i.ordering = "NotAtomic"

\* A 64-bit load has been lowered with the alignment hint 8 in its immediate,
\* and its load has alignment 1.
C21_Witness ==
    /\ emitted.operator = "i64_load"
    /\ emitted.imm.alignmentLog2 = 3
    /\ \E i \in LoadsAndStores(emitted) : i.op = "load" /\ i.alignment = 1 /\ i.volatile

(***************************************************************************)
(* Properties of the runs.                                                 *)
(***************************************************************************)
\* The functions that lower the atomic operators.
AtomicLowerings == AtomicAccessLowerings \union {"atomic_notify", "atomic_wait"}

\* The alignmentLog2 the function hands to trapIfMisalignedAtomic: the natural
\* alignment of the operator for the loads, stores, read-modify-writes and
\* compare-exchanges, the alignment of the immediate for notify and the waits.
CheckedAlignmentLog2(m) ==
    CASE m.by \in {"EMIT_ATOMIC_LOAD_OP", "EMIT_ATOMIC_STORE_OP"} -> m.op.naturalAlignmentLog2
      [] m.by \in {"EMIT_ATOMIC_CMPXCHG", "EMIT_ATOMIC_RMW"} -> m.op.alignmentLog2
      [] m.by \in {"atomic_notify", "atomic_wait"} -> m.imm.alignmentLog2

\* The address operand of the run plus the static offset of its immediate.
EffectiveAddress(m) == m.operands[1].n + m.imm.offset

\* The events of a run that are a memory operation or an intrinsic call.
IsOperation(event) == event.event \in {"load", "store", "atomicrmw", "cmpxchg", "call"}

C13_WitnessUnchecked ==
    /\ machine.status = "returned"
    /\ machine.operator = "i32_atomic_rmw8_xchg_u"
    /\ EffectiveAddress(machine) % 2 = 1
    /\ Len(machine.events) = 1
    /\ machine.memories # machine.before

\* The store events of a run, in the order they were made.
StoreEvents(m) == SelectSeq(m.events, LAMBDA event : event.event = "store")

\* C18: memory.copy of n bytes from s to d takes the reverse byte-wise loop
\* exactly when the bounded source address is unsigned-less-than the bounded
\* destination address, and the forward copy otherwise; the reverse loop
\* writes the bytes from d+n-1 down, the forward one from d up. When it has
\* returned, byte d+i of the destination memory holds what byte s+i of the
\* source memory held before the copy, for all i < n, whatever the overlap of
\* the two ranges; and at no time is a byte outside [d, d+n) changed.
C18_MemoryCopy ==
    (machine.status # "idle" /\ machine.by = "memory_copy") =>
        LET d == machine.operands[1].n
            source == machine.operands[2].n
            n == machine.operands[3].n
            sourceMemory == machine.imm.sourceMemoryIndex
            destMemory == machine.imm.destMemoryIndex
            reverse == {"memoryCopyReverse", "loopHead", "loopBody"}
            forward == {"memoryCopyForward", "loopHead1", "loopBody1"}
            stores == StoreEvents(machine)
        IN  /\ machine.block \in reverse => source < d
            /\ machine.block \in forward => ~(source < d)
            /\ machine.block \in reverse \union forward \union {"entry", "memoryCopyJoin"}
            /\ machine.status = "returned" =>
                  /\ machine.block = "memoryCopyJoin"
                  /\ \A i \in 0..(n - 1) :
                        machine.memories[destMemory][d + i + 1]
                           = machine.before[sourceMemory][source + i + 1]
                  /\ source < d => Len(stores) = n
                  /\ machine.results = <<>>
            /\ \A k \in DOMAIN stores :
                  stores[k].at = IF source < d THEN d + n - k ELSE d + k - 1
            /\ \A i \in DOMAIN machine.memories : \A k \in DOMAIN machine.memories[i] :
                  (i # destMemory \/ k - 1 \notin d..(d + n - 1)) =>
                      machine.memories[i][k] = machine.before[i][k]

\* A copy within one memory to a higher address, of ranges that overlap, has
\* returned.
C18_Witness ==
    /\ machine.status = "returned"
    /\ machine.by = "memory_copy"
    /\ machine.imm.sourceMemoryIndex = machine.imm.destMemoryIndex
    /\ machine.operands[2].n < machine.operands[1].n
    /\ machine.operands[1].n < machine.operands[2].n + machine.operands[3].n
    /\ machine.operands[3].n >= 3
    /\ machine.memories # machine.before

\* A copy within one memory to a lower address, of ranges that overlap, has
\* returned from rep movsb.
C18_WitnessForward ==
    /\ machine.status = "returned"
    /\ machine.by = "memory_copy"
    /\ machine.targetArch = "x86_64"
    /\ machine.imm.sourceMemoryIndex = machine.imm.destMemoryIndex
    /\ machine.operands[1].n < machine.operands[2].n
    /\ machine.operands[2].n < machine.operands[1].n + machine.operands[3].n
    /\ machine.operands[3].n >= 3
    /\ machine.memories # machine.before

\* Element i of the interleaved elements at the effective address of the run
\* m, in the memories given: the bytes of one lane.
InterleavedElement(memories, m, i) ==
    LET size == LaneSize(m.op.llvmValueType)
    IN  SubSeq(memories[m.imm.memoryIndex],
               EffectiveAddress(m) + i * size + 1, EffectiveAddress(m) + (i + 1) * size)

\* C19: on a target that is not aarch64, for K vectors of 2, 4, 8 or 16 lanes,
\* an interleaved load that has returned gives, as lane l of its result v, the
\* element at the interleaved index l*K + v in memory; an interleaved store
\* that has returned has put lane l of its operand v at the interleaved index
\* l*K + v and changed no other byte; and an interleaved load that reads back
\* from the address of an interleaved store of the same K gives the K vectors
\* that were stored, in the order they were on the stack.
C19_InterleavedRoundTrip ==
    /\ (machine.status = "returned" /\ machine.by = "emitLoadInterleaved") =>
          /\ Len(machine.results) = machine.op.numVectors
          /\ \A v \in 0..(machine.op.numVectors - 1) : \A l \in 0..(machine.op.numLanes - 1) :
                machine.results[v + 1].lanes[l + 1]
                   = InterleavedElement(machine.before, machine, l * machine.op.numVectors + v)
          /\ machine.memories = machine.before
          /\ machine.earlier # <<>> =>
                machine.results = SubSeq(machine.earlier[1].operands, 2,
                                         machine.op.numVectors + 1)
    /\ (machine.status = "returned" /\ machine.by = "emitStoreInterleaved") =>
          /\ machine.results = <<>>
          /\ \A v \in 0..(machine.op.numVectors - 1) : \A l \in 0..(machine.op.numLanes - 1) :
                InterleavedElement(machine.memories, machine, l * machine.op.numVectors + v)
                   = machine.operands[v + 2].lanes[l + 1]
          /\ \A i \in DOMAIN machine.memories : \A k \in DOMAIN machine.memories[i] :
                (i # machine.imm.memoryIndex
                 \/ k - 1 \notin EffectiveAddress(machine)
                                 ..(EffectiveAddress(machine) + 16 * machine.op.numVectors - 1))
                    => machine.memories[i][k] = machine.before[i][k]

\* Three vectors of sixteen lanes were stored interleaved at an address with a
\* static offset and have been read back.
C19_Witness ==
    /\ machine.status = "returned"
    /\ machine.operator = "v8x16_load_interleaved_3"
    /\ machine.imm.offset > 0
    /\ machine.earlier # <<>>
    /\ machine.earlier[1].operator = "v8x16_store_interleaved_3"
    /\ Len(machine.results) = 3
    /\ machine.results[1] = VectorOperand(0, "i8x16")
    /\ machine.results[3] = VectorOperand(2, "i8x16")
    /\ machine.before # machine.earlier[1].before

\* The bounded addresses of the code of a run: what a memory base pointer is
\* moved by.
BoundedAddresses(m) ==
    {t.index : t \in {t \in AllTerms(m) : t.op = "gep" /\ t.pointer.op = "memoryBasePointer"}}
\* The 32-bit address a bounded address is made from, and the static offset
\* added to it, each read as an unsigned number.
AddressOf(t, m) == IF t.op = "add" THEN Eval(t.lhs.arg, m).n ELSE Eval(t.arg, m).n
OffsetOf(t) == IF t.op = "add" THEN t.rhs.arg.value ELSE 0
\* The static offset of the operator of a run: memory.copy has none.
StaticOffset(m) == IF "offset" \in DOMAIN m.imm THEN m.imm.offset ELSE 0

\* C22: in every run, for every address a of AddressBits bits and every static
\* offset o of AddressBits bits, the bounded address is the number a + o of
\* twice the width, both read unsigned: an address with its top bit set is
\* not sign-extended, the sum does not wrap, and it is below
\* 2^(AddressBits + 1) (2^33 for the 32-bit addresses of the program).
C22_BoundedAddressIsUnsignedSum ==
    machine.status # "idle" =>
        \A t \in BoundedAddresses(machine) :
            /\ IsZeroExtendedAddress(t)
            /\ AddressOf(t, machine) \in 0..(2^AddressBits - 1)
            /\ OffsetOf(t) = StaticOffset(machine)
            /\ Eval(t, machine).n = AddressOf(t, machine) + OffsetOf(t)
            /\ Eval(t, machine).n < 2^(AddressBits + 1)

\* A load at the greatest address with the greatest static offset was run: the
\* address has its top bit set, the sum does not fit the width of an address,
\* and the byte read is the one at the sum.
C22_Witness ==
    /\ machine.status = "returned"
    /\ machine.by = "EMIT_ATOMIC_LOAD_OP"
    /\ machine.operands[1].n = 2^AddressBits - 1
    /\ machine.imm.offset = MaxOffset
    /\ \E t \in BoundedAddresses(machine) : Eval(t, machine).n = 2 * (2^AddressBits - 1)
    /\ \E k \in DOMAIN machine.events :
          /\ machine.events[k].event = "load"
          /\ machine.events[k].at = 2 * (2^AddressBits - 1)

\* C24: memory.fill with destination d, value v and length n gives every byte
\* of [d, d+n) of the memory of its immediate the low 8 bits of v when it has
\* returned; at no time is another byte changed, and a byte of [d, d+n) holds
\* what it held before or the low 8 bits of v; with n = 0 nothing is written.
\* The byte-wise loop of the targets other than x86 writes the bytes from d
\* up, one store for each.
C24_MemoryFill ==
    (machine.status # "idle" /\ machine.by = "memory_fill") =>
        LET d == machine.operands[1].n
            byte == machine.operands[2].n % 256
            n == machine.operands[3].n
            memory == machine.imm.memoryIndex
            stores == StoreEvents(machine)
        IN  /\ machine.status = "returned" =>
                  /\ \A i \in 0..(n - 1) : machine.memories[memory][d + i + 1] = byte
                  /\ machine.targetArch \notin {"x86", "x86_64"} => Len(stores) = n
                  /\ machine.results = <<>>
            /\ machine.targetArch \in {"x86", "x86_64"} => stores = <<>>
            /\ \A k \in DOMAIN stores : stores[k].at = d + k - 1
            /\ Len(stores) <= n
            /\ n = 0 => machine.memories = machine.before
            /\ \A i \in DOMAIN machine.memories : \A k \in DOMAIN machine.memories[i] :
                  /\ (i # memory \/ k - 1 \notin d..(d + n - 1)) =>
                        machine.memories[i][k] = machine.before[i][k]
                  /\ machine.memories[i][k] \in {machine.before[i][k], byte}

\* The byte-wise loop has filled three bytes or more of the second memory with
\* the low 8 bits of a value of more than 8 bits, and has returned.
C24_Witness ==
    /\ machine.status = "returned"
    /\ machine.by = "memory_fill"
    /\ machine.targetArch = "arm"
    /\ machine.imm.memoryIndex = 1
    /\ machine.operands[2].n = 263
    /\ machine.operands[3].n >= 3
    /\ Len(StoreEvents(machine)) = machine.operands[3].n
    /\ machine.memories[1][machine.operands[1].n + 1] = 7
    /\ machine.memories # machine.before

\* rep stosb has filled three bytes or more and has returned.
C24_WitnessStosb ==
    /\ machine.status = "returned"
    /\ machine.by = "memory_fill"
    /\ machine.targetArch = "x86_64"
    /\ machine.operands[2].n = 255
    /\ machine.operands[3].n >= 3
    /\ machine.memories[machine.imm.memoryIndex][machine.operands[1].n + 3] = 255

\* A fill of no byte has returned.
C24_WitnessNothing ==
    /\ machine.status = "returned"
    /\ machine.by = "memory_fill"
    /\ machine.operands[3].n = 0
    /\ machine.memories = machine.before

\* The calls of the runtime intrinsic in a run.
IntrinsicCalls(m) == SelectSeq(m.events, LAMBDA event : event.event = "call")

\* C26: in a run of atomic.notify, i32.atomic.wait or i64.atomic.wait with the
\* static offset o, the address the runtime intrinsic is called with is the
\* effective address (address operand + o), the one the misalignment check
\* was made on.
C26_IntrinsicGivenEffectiveAddress ==
    (machine.status # "idle" /\ machine.by \in {"atomic_notify", "atomic_wait"}) =>
        \A k \in DOMAIN IntrinsicCalls(machine) :
            IntrinsicCalls(machine)[k].at = EffectiveAddress(machine)

\* A wait at address 1 with the static offset 7 and the alignment 4 has
\* returned: the check was made on 8 and passed, the intrinsic was called
\* with 1.
C26_Divergence ==
    /\ machine.status = "returned"
    /\ machine.by = "atomic_wait"
    /\ machine.imm.alignmentLog2 = 2
    /\ machine.imm.offset = 7
    /\ machine.operands[1].n = 1
    /\ Len(machine.events) = 2
    /\ machine.events[1].event = "trapIf" /\ machine.events[1].at = 8
    /\ machine.events[2].event = "call" /\ machine.events[2].at = 1

\* C26 for the static offset 0, which is when it holds: the intrinsic is
\* called with the address operand, and the check was made on its zero
\* extension.
C26_IntrinsicGivenAddressOperand ==
    (machine.status # "idle" /\ machine.by \in {"atomic_notify", "atomic_wait"}) =>
        \A k \in DOMAIN IntrinsicCalls(machine) :
            /\ IntrinsicCalls(machine)[k].at = machine.operands[1].n
            /\ machine.imm.offset = 0 =>
                  IntrinsicCalls(machine)[k].at = EffectiveAddress(machine)

\* The loops of the code of a run: emitLoop makes a head block that starts with
\* the PHI of the index and ends in the conditional branch to the body block
\* or to the outgoing block; the reverse loop is the one whose condition is
\* "the index is not beginIndex".
LoopHeads(m) ==
    IF m.status = "idle" THEN {}
    ELSE {b \in DOMAIN m.blocks : Len(m.blocks[b]) = 2 /\ m.blocks[b][1].op = "phi"}
LoopBody(m, head) == m.blocks[head][2].ifTrue
LoopOutgoing(m, head) == m.blocks[head][2].ifFalse
LoopIsReverse(m, head) == m.blocks[head][2].condition.op = "icmp ne"
\* The run is in the loop of the head: it has not left it and has not ended in it.
InLoop(m, head) ==
    /\ head \in LoopHeads(m)
    /\ m.status = "running"
    /\ m.block \in {head, LoopBody(m, head)}
\* The run has left the loop of the head by the branch to the outgoing block.
LoopLeft(m, head) ==
    /\ head \in LoopHeads(m)
    /\ m.status \in {"running", "returned"}
    /\ m.block = LoopOutgoing(m, head)
    /\ m.previous = head
\* The body of the loop of the head has ended the run with an access outside
\* the committed bytes.
FaultedInLoop(m, head) ==
    /\ head \in LoopHeads(m)
    /\ m.status \in {"trapped", "outside the sandbox"}
    /\ m.block = LoopBody(m, head)
\* The index of each run of the body that has come to its store: the body of
\* index i stores at byte i of the destination, operand 1 of the operator.
BodyIndices(m) ==
    LET stores == StoreEvents(m)
    IN  [k \in DOMAIN stores |-> stores[k].at - m.operands[1].n]

\* The runs, with the thread that runs the code of a loop going on to its next
\* instruction for as long as it is in the loop: nothing in the loop waits for
\* another thread.
SpecRunFair ==
    SpecRun /\ WF_vars((\E head \in LoopHeads(machine) : InLoop(machine, head)) /\ NextRun)

\* What a loop from 0 to n has done at each point of a run: the k-th run of
\* the body has index k - 1 when the loop is not reversed and n - k when it is,
\* there are never more than n of them, the body is entered only for an index
\* that is due, so never when n = 0, and the loop is left by the branch to the
\* outgoing block exactly when n bodies have run; a run ends inside the loop
\* only by an access of the body outside the committed bytes.
LoopRunsBodyForEachIndex ==
    (machine.status # "idle" /\ machine.by \in {"memory_copy", "memory_fill"}) =>
        \A head \in LoopHeads(machine) :
            LET n == machine.operands[3].n
                indices == BodyIndices(machine)
            IN  (InLoop(machine, head) \/ LoopLeft(machine, head)
                                       \/ FaultedInLoop(machine, head)) =>
                   /\ Len(indices) <= n
                   /\ \A k \in DOMAIN indices :
                         indices[k] = IF LoopIsReverse(machine, head) THEN n - k ELSE k - 1
                   /\ (machine.status = "running" /\ machine.pc = 1
                          /\ machine.block = LoopBody(machine, head)) => Len(indices) < n
                   /\ LoopLeft(machine, head) => Len(indices) = n
                   /\ FaultedInLoop(machine, head) =>
                         \/ machine.operands[1].n + n > MemoryBytes
                         \/ machine.by = "memory_copy"
                              /\ machine.operands[2].n + n > MemoryBytes

\* C29: the loop emitLoop makes from index 0 to n ends for every n: once the
\* run is in the loop, it leaves it by the branch to the outgoing block, after
\* the body has run exactly n times, for the indices 0 up to n - 1 when the loop
\* is not reversed and n - 1 down to 0 when it is, and not at all when n = 0;
\* the one other way a run in the loop ends is an access of the body outside
\* the committed bytes, which traps.
C29_LoopTerminates ==
    /\ []LoopRunsBodyForEachIndex
    /\ \A head \in {"loopHead", "loopHead1"} :
          InLoop(machine, head)
             ~> (LoopLeft(machine, head) \/ FaultedInLoop(machine, head))

\* The reverse loop has run its body three times or more, the last time for
\* index 0, and the run has left it for the outgoing block.
C29_Witness ==
    /\ machine.status = "running"
    /\ machine.by = "memory_copy"
    /\ LoopLeft(machine, "loopHead")
    /\ LoopIsReverse(machine, "loopHead")
    /\ machine.operands[3].n >= 3
    /\ Len(BodyIndices(machine)) = machine.operands[3].n
    /\ BodyIndices(machine)[machine.operands[3].n] = 0

\* The loop that is not reversed has run its body three times or more, the
\* last time for index n - 1, and the run has left it.
C29_WitnessForward ==
    /\ machine.status = "returned"
    /\ machine.by = "memory_fill"
    /\ LoopLeft(machine, "loopHead")
    /\ ~LoopIsReverse(machine, "loopHead")
    /\ machine.operands[3].n >= 3
    /\ BodyIndices(machine)[machine.operands[3].n] = machine.operands[3].n - 1

\* A loop from 0 to 0 has been left with no run of its body.
C29_WitnessNothing ==
    /\ machine.status = "running"
    /\ machine.by = "memory_copy"
    /\ LoopLeft(machine, "loopHead")
    /\ machine.operands[3].n = 0
    /\ machine.events = <<>>

\* The alignment the misalignment check of the code enforces: the check is a
\* trap unless the address and a mask are 0, which makes the address a
\* multiple of the mask plus 1; code without the check enforces alignment 1.
EnforcedAlignment(code) ==
    LET checks == {k \in DOMAIN code : code[k].op = "trapIf"}
    IN  IF checks = {} THEN 1
        ELSE LET k == CHOOSE k \in checks : TRUE
             IN  code[k].condition.rhs.rhs.value + 1

C30_WitnessLowerHint ==
    /\ machine.status = "returned"
    /\ machine.operator = "i32_atomic_store"
    /\ machine.imm.alignmentLog2 = 0
    /\ EnforcedAlignment(machine.blocks["entry"]) = 4
    /\ machine.memories # machine.before

====
